---- MODULE Spec2Model ----
(***************************************************************************)
(* Model of the 163 solver (src/src/solver.ts): exact rational arithmetic, *)
(* the expression nodes with their canonical text, the combiner and the    *)
(* depth-first search, together with the two entry points findSolutions    *)
(* and findFirstSolution.                                                  *)
(*                                                                         *)
(* Text is a sequence of one-character strings, so that rendering, the     *)
(* textual tie-break of the canonical sort and the evaluation of a         *)
(* rendered text are computed character by character.                      *)
(* Every value carries its kind: a raised Error is a record of kind       *)
(* "throw", "no result" (null) is the record Null.                         *)
(***************************************************************************)
EXTENDS Integers, Sequences, FiniteSets, TLC

VARIABLES numbers, target, pc, returned, call, stack, solutions, seenExpressions,
          state, drawing, operands, joined, heap, runs

vars == <<numbers, target, pc, returned, call, stack, solutions, seenExpressions,
          state, drawing, operands, joined, heap, runs>>

\* the state of a search in steps
searchVars == <<call, stack, solutions, seenExpressions>>

\* the state of the web front-end
webVars == <<state, drawing>>

\* the operands of a join and what it gave
joinVars == <<operands, joined>>

\* the arrays that hold the pools of a search
poolVars == <<heap>>

\* the invocations of findSolutions that run side by side
runVars == <<runs>>

\* ------------------------------------------------------------------------
\* Bounds of the model
\* ------------------------------------------------------------------------
MaxLen == 3
MaxNumber == 3
MaxTarget == 4
MaxCap == 2

\* the integers a fraction is made of on its own, -MaxFractionPart..MaxFractionPart
MaxFractionPart == 3

\* invocations side by side: hands of at most MaxRunLen numbers of
\* 1..MaxRunNumber, targets 1..MaxRunTarget
MaxRunLen == 2
MaxRunNumber == 2
MaxRunTarget == 2

\* a game: at most MaxMoves operations are applied to a hand
MaxMoves == 2

\* a deal of a game: only the first MaxTurns turns of shuffle's loop move a card
MaxTurns == 1

\* the leaves of the operands of a join on its own, 0..MaxJoinNumber
MaxJoinNumber == 2

\* the ranks of the deck of the web front-end, 1..DeckRanks
DeckRanks == 2

\* suit < 4: the cards of each rank
DeckSuits == 4

\* value <= 13: the highest card of the deck of the program
HighestCard == 13

\* ------------------------------------------------------------------------
\* Completion values
\* ------------------------------------------------------------------------
Throw(message) == [kind |-> "throw", message |-> message]

IsThrow(x) == x.kind = "throw"

Null == [kind |-> "null"]

IsNull(x) == x.kind = "null"

Abs(x) == IF x < 0 THEN -x ELSE x

Sign(x) == IF x < 0 THEN -1 ELSE IF x > 0 THEN 1 ELSE 0

\* ------------------------------------------------------------------------
\* Rational arithmetic
\* ------------------------------------------------------------------------
\* a threshold that takes 1 for zero
BelowTwo(x) == Abs(x) < 2

\* ZERO_THRESHOLD = 1e-10: on integers, |x| < 1e-10 exactly when x = 0
BelowZeroThreshold(x) == Abs(x) < 1

RECURSIVE gcdLoop(_, _)
gcdLoop(x, y) == IF y # 0 THEN gcdLoop(y, x % y) ELSE x

gcd(a, b) == gcdLoop(Abs(a), Abs(b))

\* the returned object: both parts divided by their gcd
Reduced(normalizedNumerator, normalizedDenominator, divisor) ==
  [kind |-> "Fraction",
   numerator |-> normalizedNumerator \div divisor,
   denominator |-> normalizedDenominator \div divisor]

Normalized(normalizedNumerator, normalizedDenominator) ==
  Reduced(normalizedNumerator, normalizedDenominator,
          gcd(Abs(normalizedNumerator), normalizedDenominator))

\* a constructor that keeps the parts as they come
makeFractionUnreduced(numerator, denominator) ==
  IF denominator = 0 THEN Throw("Denominator cannot be zero")
  ELSE [kind |-> "Fraction", numerator |-> numerator, denominator |-> denominator]

makeFraction(numerator, denominator) ==
  IF denominator = 0 THEN Throw("Denominator cannot be zero")
  ELSE IF numerator = 0 THEN [kind |-> "Fraction", numerator |-> 0, denominator |-> 1]
  ELSE Normalized(Sign(denominator) * numerator, Abs(denominator))

addFractions(a, b) ==
  makeFraction(a.numerator * b.denominator + b.numerator * a.denominator,
               a.denominator * b.denominator)

subtractFractions(a, b) ==
  makeFraction(a.numerator * b.denominator - b.numerator * a.denominator,
               a.denominator * b.denominator)

multiplyFractions(a, b) ==
  makeFraction(a.numerator * b.numerator, a.denominator * b.denominator)

divideFractions(a, b) ==
  IF BelowZeroThreshold(b.numerator) THEN Null
  ELSE IF BelowZeroThreshold(a.denominator * b.numerator) THEN Null
  ELSE makeFraction(a.numerator * b.denominator, a.denominator * b.numerator)

\* a comparison that forgets the denominators
fractionsEqualNumerators(a, b) == a.numerator = b.numerator

fractionsEqual(a, b) ==
  a.numerator = b.numerator /\ a.denominator = b.denominator

\* the host number numerator / denominator, kept as the reduced pair
fractionToNumber(f) == <<f.numerator, f.denominator>>

compareFractions(a, b) ==
  Sign(a.numerator * b.denominator - b.numerator * a.denominator)

\* ------------------------------------------------------------------------
\* Text
\* ------------------------------------------------------------------------
DigitChar(d) ==
  CASE d = 0 -> "0" [] d = 1 -> "1" [] d = 2 -> "2" [] d = 3 -> "3"
    [] d = 4 -> "4" [] d = 5 -> "5" [] d = 6 -> "6" [] d = 7 -> "7"
    [] d = 8 -> "8" [] d = 9 -> "9"

RECURSIVE NaturalToString(_)
NaturalToString(n) ==
  IF n < 10 THEN <<DigitChar(n)>>
  ELSE NaturalToString(n \div 10) \o <<DigitChar(n % 10)>>

\* Number.prototype.toString on an integer
formatNumber(value) ==
  IF value < 0 THEN <<"-">> \o NaturalToString(-value)
  ELSE NaturalToString(value)

\* String.prototype.localeCompare on the characters a rendered text can
\* hold: the collation puts punctuation before symbols before digits.
CollationRank(c) ==
  CASE c = " " -> 0 [] c = "-" -> 1 [] c = "(" -> 2 [] c = ")" -> 3
    [] c = "*" -> 4 [] c = "/" -> 5 [] c = "+" -> 6
    [] c = "0" -> 10 [] c = "1" -> 11 [] c = "2" -> 12 [] c = "3" -> 13
    [] c = "4" -> 14 [] c = "5" -> 15 [] c = "6" -> 16 [] c = "7" -> 17
    [] c = "8" -> 18 [] c = "9" -> 19

RECURSIVE localeCompare(_, _)
localeCompare(a, b) ==
  IF a = <<>> THEN (IF b = <<>> THEN 0 ELSE -1)
  ELSE IF b = <<>> THEN 1
  ELSE IF CollationRank(Head(a)) < CollationRank(Head(b)) THEN -1
  ELSE IF CollationRank(Head(a)) > CollationRank(Head(b)) THEN 1
  ELSE localeCompare(Tail(a), Tail(b))

startsWith(text, c) == text # <<>> /\ Head(text) = c

\* ------------------------------------------------------------------------
\* Expression nodes
\* ------------------------------------------------------------------------
ApplyFraction(op, a, b) ==
  CASE op = "add" -> addFractions(a, b)
    [] op = "subtract" -> subtractFractions(a, b)
    [] op = "multiply" -> multiplyFractions(a, b)
    [] op = "divide" -> divideFractions(a, b)

\* for (const expr of exprs) result = op(result, expr.fraction), left at
\* the first throw or null
RECURSIVE FoldFractions(_, _, _)
FoldFractions(op, result, exprs) ==
  IF IsThrow(result) \/ IsNull(result) THEN result
  ELSE IF exprs = <<>> THEN result
  ELSE FoldFractions(op, ApplyFraction(op, result, Head(exprs).fraction), Tail(exprs))

\* the two loops of a group's value: over the positives, then the negatives
GroupFraction(unit, opPositives, opNegatives, positives, negatives) ==
  FoldFractions(opNegatives, FoldFractions(opPositives, unit, positives), negatives)

calculateAddGroupFraction(positives, negatives) ==
  GroupFraction(makeFraction(0, 1), "add", "subtract", positives, negatives)

calculateMulGroupFraction(positives, negatives) ==
  GroupFraction(makeFraction(1, 1), "multiply", "divide", positives, negatives)

\* operations that work on the cubes of the parts
ComputedOnCubes(op, a, b) ==
  {(a.numerator * b.denominator) ^ 3 + (b.numerator * a.denominator) ^ 3,
   (a.numerator * b.numerator) ^ 3, (a.denominator * b.denominator) ^ 3}

\* the integers the operation op computes from a and b before makeFraction
\* reduces them: lines 55-56, 61-62, 67-68, 77-78, and the comparison of
\* lines 219
Computed(op, a, b) ==
  CASE op = "add" ->
         {a.numerator * b.denominator, b.numerator * a.denominator,
          a.numerator * b.denominator + b.numerator * a.denominator,
          a.denominator * b.denominator}
    [] op = "subtract" ->
         {a.numerator * b.denominator, b.numerator * a.denominator,
          a.numerator * b.denominator - b.numerator * a.denominator,
          a.denominator * b.denominator}
    [] op = "multiply" ->
         {a.numerator * b.numerator, a.denominator * b.denominator}
    [] op = "divide" ->
         IF BelowZeroThreshold(b.numerator) THEN {}
         ELSE {a.numerator * b.denominator, a.denominator * b.numerator}
    [] op = "compare" ->
         {a.numerator * b.denominator, b.numerator * a.denominator,
          a.numerator * b.denominator - b.numerator * a.denominator}

\* the integers the loop of a group's value computes
RECURSIVE FoldComputed(_, _, _)
FoldComputed(op, result, exprs) ==
  IF IsThrow(result) \/ IsNull(result) \/ exprs = <<>> THEN {}
  ELSE Computed(op, result, Head(exprs).fraction)
         \cup FoldComputed(op, ApplyFraction(op, result, Head(exprs).fraction), Tail(exprs))

\* the integers the sort of a list of members computes, at most
SortComputed(members) ==
  UNION {Computed("compare", members[k].fraction, members[l].fraction) :
           k \in 1..Len(members), l \in 1..Len(members)}

\* the integers computed for a group: by its constructor and by its repr
GroupComputed(unit, opPositives, opNegatives, positives, negatives) ==
  FoldComputed(opPositives, unit, positives)
    \cup FoldComputed(opNegatives, FoldFractions(opPositives, unit, positives), negatives)
    \cup SortComputed(positives) \cup SortComputed(negatives)

LeafNode(fraction, display) ==
  IF IsThrow(fraction) THEN fraction
  ELSE [kind |-> "NumericExpression", fraction |-> fraction, display |-> display]

AddGroupNode(fraction, positives, negatives) ==
  IF IsThrow(fraction) THEN fraction
  ELSE [kind |-> "AddGroup", fraction |-> fraction,
        positives |-> positives, negatives |-> negatives]

MulGroupNode(value, positives, negatives) ==
  IF IsThrow(value) THEN value
  ELSE IF IsNull(value)
    THEN Throw("Invalid multiplication group with division by zero")
  ELSE [kind |-> "MulGroup", fraction |-> value,
        positives |-> positives, negatives |-> negatives]

NumericExpression(value) == LeafNode(makeFraction(value, 1), formatNumber(value))

AddGroup(positives, negatives) ==
  AddGroupNode(calculateAddGroupFraction(positives, negatives), positives, negatives)

MulGroup(positives, negatives) ==
  MulGroupNode(calculateMulGroupFraction(positives, negatives), positives, negatives)

\* ------------------------------------------------------------------------
\* Canonical rendering
\* ------------------------------------------------------------------------
RECURSIVE repr(_)

\* the value comparison decides unless it is 0
TieBreak(valueComparison, a, b) ==
  IF valueComparison # 0 THEN valueComparison
  ELSE localeCompare(repr(a), repr(b))

\* an order that looks at the values only
compareExpressionsByValue(a, b) == compareFractions(a.fraction, b.fraction)

compareExpressions(a, b) == TieBreak(compareFractions(a.fraction, b.fraction), a, b)

\* Array.prototype.sort is stable: an element goes after the elements it
\* does not precede
RECURSIVE InsertSorted(_, _)
InsertSorted(sorted, e) ==
  IF sorted = <<>> THEN <<e>>
  ELSE IF compareExpressions(e, Head(sorted)) < 0 THEN <<e>> \o sorted
  ELSE <<Head(sorted)>> \o InsertSorted(Tail(sorted), e)

RECURSIVE SortInto(_, _)
SortInto(sorted, rest) ==
  IF rest = <<>> THEN sorted
  ELSE SortInto(InsertSorted(sorted, Head(rest)), Tail(rest))

\* a sort that leaves the members in the order they were pushed
sortExpressionsUnsorted(expressions) == expressions

sortExpressions(expressions) == SortInto(<<>>, expressions)

\* parts.join("")
RECURSIVE JoinParts(_)
JoinParts(parts) ==
  IF parts = <<>> THEN <<>> ELSE Head(parts) \o JoinParts(Tail(parts))

\* result.startsWith(c) ? result.slice(1) : result
StripLeading(text, c) == IF startsWith(text, c) THEN Tail(text) ELSE text

\* the text of a member; needsParens is decided by the group
MemberText(expr, needsParens) ==
  IF needsParens THEN <<"(">> \o repr(expr) \o <<")">> ELSE repr(expr)

AddGroupParts(positives, negatives) ==
  [k \in 1..Len(positives) |-> <<"+">> \o MemberText(positives[k], FALSE)]
  \o [k \in 1..Len(negatives) |->
        <<"-">> \o MemberText(negatives[k], negatives[k].kind = "AddGroup")]

AddGroupRepr(node) ==
  StripLeading(JoinParts(AddGroupParts(sortExpressions(node.positives),
                                       sortExpressions(node.negatives))), "+")

\* a product that writes its members without parentheses
MulGroupPartsBare(positives, negatives) ==
  [k \in 1..Len(positives) |-> <<"*">> \o MemberText(positives[k], FALSE)]
  \o [k \in 1..Len(negatives) |-> <<"/">> \o MemberText(negatives[k], FALSE)]

MulGroupParts(positives, negatives) ==
  [k \in 1..Len(positives) |->
     <<"*">> \o MemberText(positives[k], positives[k].kind # "NumericExpression")]
  \o [k \in 1..Len(negatives) |->
        <<"/">> \o MemberText(negatives[k], negatives[k].kind # "NumericExpression")]

MulGroupRepr(node) ==
  StripLeading(JoinParts(MulGroupParts(sortExpressions(node.positives),
                                       sortExpressions(node.negatives))), "*")

repr(node) ==
  CASE node.kind = "NumericExpression" -> node.display
    [] node.kind = "AddGroup" -> AddGroupRepr(node)
    [] node.kind = "MulGroup" -> MulGroupRepr(node)

\* ------------------------------------------------------------------------
\* Joining and combining
\* ------------------------------------------------------------------------
\* a join that keeps a group of its own kind as one member
JoinedPositivesNested(groupKind, first, second, flipSecond) ==
  <<first>> \o (IF flipSecond THEN <<>> ELSE <<second>>)

\* the members a join of kind groupKind pushes to positives
JoinedPositives(groupKind, first, second, flipSecond) ==
  (IF first.kind = groupKind THEN first.positives ELSE <<first>>)
  \o (IF second.kind = groupKind
        THEN (IF flipSecond THEN second.negatives ELSE second.positives)
        ELSE (IF flipSecond THEN <<>> ELSE <<second>>))

\* a join that negates a group without swapping its member lists
JoinedNegativesUnswapped(groupKind, first, second, flipSecond) ==
  (IF first.kind = groupKind THEN first.negatives ELSE <<>>)
  \o (IF second.kind = groupKind THEN second.negatives
      ELSE (IF flipSecond THEN <<second>> ELSE <<>>))

\* the members a join of kind groupKind pushes to negatives
JoinedNegatives(groupKind, first, second, flipSecond) ==
  (IF first.kind = groupKind THEN first.negatives ELSE <<>>)
  \o (IF second.kind = groupKind
        THEN (IF flipSecond THEN second.positives ELSE second.negatives)
        ELSE (IF flipSecond THEN <<second>> ELSE <<>>))

joinAddGroup(first, second, negateSecond) ==
  AddGroup(JoinedPositives("AddGroup", first, second, negateSecond),
           JoinedNegatives("AddGroup", first, second, negateSecond))

\* if (!value) return null; return new MulGroup(positives, negatives)
MulGroupIfDefined(value, positives, negatives) ==
  IF IsThrow(value) THEN value
  ELSE IF IsNull(value) THEN Null
  ELSE MulGroup(positives, negatives)

MulGroupOfMembers(positives, negatives) ==
  MulGroupIfDefined(calculateMulGroupFraction(positives, negatives), positives, negatives)

\* a join that does not look at the value before it builds the group
joinMulGroupUnchecked(first, second, invertSecond) ==
  MulGroup(JoinedPositives("MulGroup", first, second, invertSecond),
           JoinedNegatives("MulGroup", first, second, invertSecond))

joinMulGroup(first, second, invertSecond) ==
  MulGroupOfMembers(JoinedPositives("MulGroup", first, second, invertSecond),
                    JoinedNegatives("MulGroup", first, second, invertSecond))

makeInitialExpressions(nums) ==
  [k \in 1..Len(nums) |-> NumericExpression(nums[k])]

IsNode(x) == ~IsNull(x)

\* the results pushed, unless a join threw
PushedResults(thrown, attempts) ==
  IF thrown # <<>> THEN thrown[1]
  ELSE [kind |-> "results", results |-> SelectSeq(attempts, IsNode)]

ResultsOf(attempts) == PushedResults(SelectSeq(attempts, IsThrow), attempts)

\* a combiner that forgets the backward difference
combineExpressionsForward(first, second) ==
  ResultsOf(<< joinAddGroup(first, second, FALSE),
               joinMulGroup(first, second, FALSE),
               joinAddGroup(first, second, TRUE),
               joinMulGroup(first, second, TRUE),
               joinMulGroup(second, first, TRUE) >>)

\* a combiner that pushes the backward difference before the forward one
combineExpressionsBackwardFirst(first, second) ==
  ResultsOf(<< joinAddGroup(first, second, FALSE),
               joinMulGroup(first, second, FALSE),
               joinAddGroup(second, first, TRUE),
               joinAddGroup(first, second, TRUE),
               joinMulGroup(first, second, TRUE),
               joinMulGroup(second, first, TRUE) >>)

\* the candidates in the order they are pushed
combineExpressions(first, second) ==
  ResultsOf(<< joinAddGroup(first, second, FALSE),
               joinMulGroup(first, second, FALSE),
               joinAddGroup(first, second, TRUE),
               joinAddGroup(second, first, TRUE),
               joinMulGroup(first, second, TRUE),
               joinMulGroup(second, first, TRUE) >>)

\* ------------------------------------------------------------------------
\* Host numbers of the options: a finite number, Infinity, NaN, or a
\* property that is absent
\* ------------------------------------------------------------------------
Finite(n) == [kind |-> "finite", value |-> n]

Infinity == [kind |-> "Infinity"]

NaN == [kind |-> "NaN"]

Undefined == [kind |-> "undefined"]

MAX_SOLUTIONS_DEFAULT == Infinity

IsFinite(x) == x.kind = "finite"

IsUndefined(x) == x.kind = "undefined"

\* a test that lets zero through
BelowZero(x) == IsFinite(x) /\ x.value < 0

\* x <= 0
AtMostZero(x) == IsFinite(x) /\ x.value <= 0

\* a cut-off that lets one solution too many through
capReachedLate(found, maxSolutions) ==
  IsFinite(maxSolutions) /\ Len(found) > maxSolutions.value

\* solutions.length >= maxSolutions
capReached(found, maxSolutions) ==
  IsFinite(maxSolutions) /\ Len(found) >= maxSolutions.value

\* ------------------------------------------------------------------------
\* Search
\* ------------------------------------------------------------------------
\* acc is the state the recursion shares: the solutions list and the set of
\* seen expressions, with the error that left the search (Null while there
\* is none), the number of search steps entered so far and the number of
\* final nodes found equal to the target.
EmptyAcc ==
  [solutions |-> <<>>, seenExpressions |-> {}, threw |-> Null, searchCalls |-> 0,
   matches |-> 0]

\* a remaining that leaves the second term of the pair in the pool
removePairKeepingSecond(pool, i, j) ==
  SelectSeq([k \in 1..Len(pool) |-> IF k # i THEN pool[k] ELSE Null], IsNode)

\* remaining: the terms at the positions other than i and j, in order
removePair(pool, i, j) ==
  SelectSeq([k \in 1..Len(pool) |-> IF k # i /\ k # j THEN pool[k] ELSE Null], IsNode)

\* a push that does not consult the seen expressions
pushSolutionUnseen(representation, value, acc) ==
  [acc EXCEPT !.seenExpressions = @ \cup {representation},
              !.solutions = Append(@, [expression |-> representation,
                                       value |-> value])]

\* a push at the front of the list
pushSolutionFront(representation, value, acc) ==
  IF representation \notin acc.seenExpressions
    THEN [acc EXCEPT !.seenExpressions = @ \cup {representation},
                     !.solutions = <<[expression |-> representation,
                                      value |-> value]>> \o @]
    ELSE acc

pushSolution(representation, value, acc) ==
  IF representation \notin acc.seenExpressions
    THEN [acc EXCEPT !.seenExpressions = @ \cup {representation},
                     !.solutions = Append(@, [expression |-> representation,
                                              value |-> value])]
    ELSE acc

recordSolution(node, acc) ==
  pushSolution(repr(node), fractionToNumber(node.fraction),
               [acc EXCEPT !.matches = @ + 1])

\* a test of the first node alone, whatever the size of the pool
IsTerminalAnySize(pool, goal) == fractionsEqual(pool[1].fraction, goal)

\* line 392
IsTerminal(pool, goal) == Len(pool) = 1 /\ fractionsEqual(pool[1].fraction, goal)

RECURSIVE searchSolutions(_, _, _, _)
RECURSIVE searchPairs(_, _, _, _, _)
RECURSIVE searchCandidates(_, _, _, _, _, _, _)

\* after the recursive call for candidate c: on to the next candidate
NextCandidate(pool, i, j, combinedTerms, c, opts, after) ==
  IF IsThrow(after.threw) THEN after
  ELSE searchCandidates(pool, i, j, combinedTerms, c + 1, opts, after)

\* for (const next of combinedTerms) from position c, then the next j
searchCandidates(pool, i, j, combinedTerms, c, opts, acc) ==
  IF c > Len(combinedTerms) THEN searchPairs(pool, i, j + 1, opts, acc)
  ELSE IF capReached(acc.solutions, opts.maxSolutions) THEN acc
  ELSE NextCandidate(pool, i, j, combinedTerms, c, opts,
                     searchSolutions(removePair(pool, i, j) \o <<combinedTerms[c]>>,
                                     opts.goal, opts.maxSolutions, acc))

\* the candidates of the pair (i, j), once combined
CombinedPair(pool, i, j, opts, acc, combinedTerms) ==
  IF IsThrow(combinedTerms) THEN [acc EXCEPT !.threw = combinedTerms]
  ELSE searchCandidates(pool, i, j, combinedTerms.results, 1, opts, acc)

\* the two for loops over i and j > i, from position (i, j)
searchPairs(pool, i, j, opts, acc) ==
  IF i > Len(pool) THEN acc
  ELSE IF j > Len(pool) THEN searchPairs(pool, i + 1, i + 2, opts, acc)
  ELSE CombinedPair(pool, i, j, opts, acc, combineExpressions(pool[i], pool[j]))

\* the body of searchSolutions, entered counts the call
SearchBody(pool, goal, maxSolutions, entered) ==
  IF capReached(entered.solutions, maxSolutions) THEN entered
  ELSE IF IsTerminal(pool, goal) THEN recordSolution(pool[1], entered)
  ELSE searchPairs(pool, 1, 2, [goal |-> goal, maxSolutions |-> maxSolutions], entered)

searchSolutions(pool, goal, maxSolutions, acc) ==
  SearchBody(pool, goal, maxSolutions, [acc EXCEPT !.searchCalls = @ + 1])

\* ------------------------------------------------------------------------
\* The web front-end: its state object, and the drawCards that is running
\* ------------------------------------------------------------------------
GameModes == {"163", "24"}

NUMBERS_PER_MODE(mode) == IF mode = "163" THEN 6 ELSE 4

TARGET_PER_MODE(mode) == IF mode = "163" THEN 163 ELSE 24

\* let state: GameState = { mode: "163", numbers: [], ... }
InitialState ==
  [mode |-> "163", numbers |-> <<>>, initialNumbers |-> <<>>, history |-> <<>>,
   selectedIndices |-> <<>>, selectedOperation |-> Null, status |-> "idle"]

\* no drawCards is running
NoDraw == [kind |-> "noDraw"]

\* ------------------------------------------------------------------------
\* Entry points.  An outcome is what the call gave back (result: a thrown
\* error, or the returned list or Solution or null) with the number of leaf
\* nodes built, of search steps entered and of final nodes found equal to
\* the target during the call.
\* ------------------------------------------------------------------------
Outcome(result, leavesBuilt, searchCalls, matches) ==
  [kind |-> "outcome", result |-> result, leavesBuilt |-> leavesBuilt,
   searchCalls |-> searchCalls, matches |-> matches]

\* return solutions, unless the search threw
SearchOutcome(nums, searched) ==
  Outcome(IF IsThrow(searched.threw) THEN searched.threw
          ELSE [kind |-> "list", list |-> searched.solutions],
          Len(nums), searched.searchCalls, searched.matches)

\* lines 363-370, the arguments being valid
SearchFrom(nums, targetFraction, initialTerms, thrownLeaves, maxSolutions) ==
  IF IsThrow(targetFraction) THEN Outcome(targetFraction, 0, 0, 0)
  ELSE IF thrownLeaves # <<>> THEN Outcome(thrownLeaves[1], Len(nums), 0, 0)
  ELSE SearchOutcome(nums, searchSolutions(initialTerms, targetFraction,
                                           maxSolutions, EmptyAcc))

SearchInitial(nums, targetFraction, initialTerms, maxSolutions) ==
  SearchFrom(nums, targetFraction, initialTerms, SelectSeq(initialTerms, IsThrow),
             maxSolutions)

Validated(nums, targetValue, maxSolutions) ==
  IF Len(nums) = 0
    THEN Outcome(Throw("The numbers array must contain at least one entry."), 0, 0, 0)
  ELSE IF ~IsFinite(targetValue)
    THEN Outcome(Throw("Target must be a finite number."), 0, 0, 0)
  ELSE IF AtMostZero(maxSolutions)
    THEN Outcome(Throw("maxSolutions must be greater than zero."), 0, 0, 0)
  ELSE SearchInitial(nums, makeFraction(targetValue.value, 1),
                     makeInitialExpressions(nums), maxSolutions)

findSolutions(nums, options) ==
  Validated(nums, options.target,
            IF IsUndefined(options.maxSolutions) THEN MAX_SOLUTIONS_DEFAULT
            ELSE options.maxSolutions)

\* solutions.length > 0 ? solutions[0] : null, unless findSolutions threw
FirstOf(outcome) ==
  IF IsThrow(outcome.result) THEN outcome
  ELSE [outcome EXCEPT !.result = IF Len(outcome.result.list) > 0
                                 THEN [kind |-> "solution", solution |-> outcome.result.list[1]]
                                 ELSE Null]

\* an entry point that hands its own maxSolutions on
findFirstSolutionPassing(nums, options) == FirstOf(findSolutions(nums, options))

findFirstSolution(nums, options) ==
  FirstOf(findSolutions(nums, [target |-> options.target, maxSolutions |-> Finite(1)]))

\* ------------------------------------------------------------------------
\* The program: a client holding one hand and one target makes the two
\* calls of findSolutions of the tests (no cap; cap 1) and then one more call
\* of either entry point with any maxSolutions option, and keeps what every
\* call gave back.
\* ------------------------------------------------------------------------
RECURSIVE SeqsUpTo(_, _)
SeqsUpTo(S, n) ==
  IF n = 0 THEN {<<>>}
  ELSE {<<>>} \cup {<<x>> \o h : x \in S, h \in SeqsUpTo(S, n - 1)}

\* the hands: at most MaxLen numbers of 0..MaxNumber
Hands == SeqsUpTo(0..MaxNumber, MaxLen)

Targets == {Finite(t) : t \in 0..MaxTarget} \cup {NaN, Infinity}

MaxOptions == {Undefined} \cup {Finite(k) : k \in -1..MaxCap}

Calls == [fn : {"findSolutions", "findFirstSolution"}, maxSolutions : MaxOptions]

NotCalled == [kind |-> "notCalled"]

NoCall == [kind |-> "noCall"]

NotJoined == [kind |-> "notJoined"]

\* no array has been made
NoHeap == [next |-> 0, cells |-> <<>>]

\* no invocation runs side by side with another
NoRuns == <<>>

WasCalled(d) == returned[d].kind = "outcome"

Call(fn, maxOption) == [fn |-> fn, maxSolutions |-> maxOption]

Init ==
  /\ numbers \in Hands
  /\ target \in Targets
  /\ pc = "testFindSolutions"
  /\ returned = [d \in Calls |-> NotCalled]
  /\ call = NoCall
  /\ stack = <<>>
  /\ solutions = <<>>
  /\ seenExpressions = {}
  /\ state = InitialState
  /\ drawing = NoDraw
  /\ operands = <<>>
  /\ joined = NotJoined
  /\ heap = NoHeap
  /\ runs = NoRuns

TestFindSolutions ==
  /\ pc = "testFindSolutions"
  /\ returned' = [returned EXCEPT ![Call("findSolutions", Undefined)] =
                    findSolutions(numbers, [target |-> target, maxSolutions |-> Undefined])]
  /\ pc' = "testFindSolutionsLimit"
  /\ UNCHANGED <<numbers, target, searchVars, webVars, joinVars, poolVars, runVars>>

TestFindSolutionsLimit ==
  /\ pc = "testFindSolutionsLimit"
  /\ returned' = [returned EXCEPT ![Call("findSolutions", Finite(1))] =
                    findSolutions(numbers, [target |-> target, maxSolutions |-> Finite(1)])]
  /\ pc' = "call"
  /\ UNCHANGED <<numbers, target, searchVars, webVars, joinVars, poolVars, runVars>>

CallFindSolutions(maxOption) ==
  /\ pc = "call"
  /\ ~WasCalled(Call("findSolutions", maxOption))
  /\ returned' = [returned EXCEPT ![Call("findSolutions", maxOption)] =
                    findSolutions(numbers, [target |-> target, maxSolutions |-> maxOption])]
  /\ pc' = "done"
  /\ UNCHANGED <<numbers, target, searchVars, webVars, joinVars, poolVars, runVars>>

CallFindFirstSolution(maxOption) ==
  /\ pc = "call"
  /\ returned' = [returned EXCEPT ![Call("findFirstSolution", maxOption)] =
                    findFirstSolution(numbers, [target |-> target, maxSolutions |-> maxOption])]
  /\ pc' = "done"
  /\ UNCHANGED <<numbers, target, searchVars, webVars, joinVars, poolVars, runVars>>

Next ==
  \/ TestFindSolutions
  \/ TestFindSolutionsLimit
  \/ \E m \in MaxOptions : CallFindSolutions(m)
  \/ \E m \in MaxOptions : CallFindFirstSolution(m)

Spec == Init /\ [][Next]_vars

\* ------------------------------------------------------------------------
\* The search in steps.  stack holds one frame for every call of
\* searchSolutions that has not returned: its arguments and its place, "entry"
\* (line 388) or "loop" at candidate c of the pair (i, j) (line 417, positions
\* counted from 1).  solutions and seenExpressions are the two objects every
\* call shares; call is the entry point called, with its option and the
\* counts and the error of the search so far.
\* ------------------------------------------------------------------------
Frame(pool, goal, maxSolutions) ==
  [terms |-> pool, target |-> goal, maxSolutions |-> maxSolutions,
   at |-> "entry", i |-> 0, j |-> 0, combinedTerms |-> <<>>, c |-> 0]

Top == stack[Len(stack)]

Popped == SubSeq(stack, 1, Len(stack) - 1)

ReplacedTop(frame) == [stack EXCEPT ![Len(stack)] = frame]

\* the cap an entry point searches with
EffectiveCap(d) ==
  IF d.fn = "findFirstSolution" THEN Finite(1)
  ELSE IF IsUndefined(d.maxSolutions) THEN MAX_SOLUTIONS_DEFAULT
  ELSE d.maxSolutions

StartedCall(d) ==
  [kind |-> "call", fn |-> d.fn, maxSolutions |-> d.maxSolutions,
   searchCalls |-> 0, matches |-> 0, threw |-> Null]

\* the shared objects as the recursion's accumulator
SharedAcc ==
  [solutions |-> solutions, seenExpressions |-> seenExpressions, threw |-> call.threw,
   searchCalls |-> call.searchCalls, matches |-> call.matches]

\* the shared objects after a step that leaves them as acc, the stack as
\* newStack
Shared(acc, newStack) ==
  /\ solutions' = acc.solutions
  /\ seenExpressions' = acc.seenExpressions
  /\ call' = [call EXCEPT !.searchCalls = acc.searchCalls, !.matches = acc.matches,
                          !.threw = acc.threw]
  /\ stack' = IF IsThrow(acc.threw) THEN <<>> ELSE newStack

\* the frame at the first candidate of the pair (i, j), or the error that
\* combining the pair threw
AtPair(frame, i, j, combinedTerms, acc) ==
  IF IsThrow(combinedTerms)
    THEN Shared([acc EXCEPT !.threw = combinedTerms], <<>>)
    ELSE Shared(acc, ReplacedTop([frame EXCEPT !.at = "loop", !.i = i, !.j = j,
                                               !.combinedTerms = combinedTerms.results,
                                               !.c = 1]))

\* lines 388-405: the call returns at once, records a Solution and returns,
\* or enters its loops
SearchEntry ==
  /\ pc = "search"
  /\ stack # <<>>
  /\ Top.at = "entry"
  /\ IF capReached(solutions, Top.maxSolutions)
       THEN Shared([SharedAcc EXCEPT !.searchCalls = @ + 1], Popped)
     ELSE IF IsTerminal(Top.terms, Top.target)
       THEN Shared(recordSolution(Top.terms[1], [SharedAcc EXCEPT !.searchCalls = @ + 1]),
                   Popped)
     ELSE IF Len(Top.terms) < 2
       THEN Shared([SharedAcc EXCEPT !.searchCalls = @ + 1], Popped)
     ELSE AtPair(Top, 1, 2, combineExpressions(Top.terms[1], Top.terms[2]),
                 [SharedAcc EXCEPT !.searchCalls = @ + 1])
  /\ UNCHANGED <<numbers, target, pc, returned, webVars, joinVars, poolVars, runVars>>

\* a loop that searches the next candidate without looking at the cap
SearchCandidateUnchecked ==
  /\ pc = "search"
  /\ stack # <<>>
  /\ Top.at = "loop"
  /\ Top.c <= Len(Top.combinedTerms)
  /\ stack' = Append(ReplacedTop([Top EXCEPT !.c = @ + 1]),
                     Frame(removePair(Top.terms, Top.i, Top.j)
                             \o <<Top.combinedTerms[Top.c]>>,
                           Top.target, Top.maxSolutions))
  /\ UNCHANGED <<numbers, target, pc, returned, call, solutions, seenExpressions,
                 webVars, joinVars, poolVars, runVars>>

\* lines 417-422: the next candidate is searched, unless the cap is reached
SearchCandidate ==
  /\ pc = "search"
  /\ stack # <<>>
  /\ Top.at = "loop"
  /\ Top.c <= Len(Top.combinedTerms)
  /\ IF capReached(solutions, Top.maxSolutions)
       THEN stack' = Popped
       ELSE stack' = Append(ReplacedTop([Top EXCEPT !.c = @ + 1]),
                            Frame(removePair(Top.terms, Top.i, Top.j)
                                    \o <<Top.combinedTerms[Top.c]>>,
                                  Top.target, Top.maxSolutions))
  /\ UNCHANGED <<numbers, target, pc, returned, call, solutions, seenExpressions, webVars, joinVars, poolVars, runVars>>

\* lines 404-416: the candidates of a pair are done; on to the next pair, or
\* out of the loops
SearchNextPair ==
  /\ pc = "search"
  /\ stack # <<>>
  /\ Top.at = "loop"
  /\ Top.c > Len(Top.combinedTerms)
  /\ IF Top.j < Len(Top.terms)
       THEN AtPair(Top, Top.i, Top.j + 1,
                   combineExpressions(Top.terms[Top.i], Top.terms[Top.j + 1]), SharedAcc)
     ELSE IF Top.i + 2 <= Len(Top.terms)
       THEN AtPair(Top, Top.i + 1, Top.i + 2,
                   combineExpressions(Top.terms[Top.i + 1], Top.terms[Top.i + 2]), SharedAcc)
     ELSE Shared(SharedAcc, Popped)
  /\ UNCHANGED <<numbers, target, pc, returned, webVars, joinVars, poolVars, runVars>>

\* lines 370 and 378: the first call of searchSolutions has returned
SearchReturn ==
  /\ pc = "search"
  /\ stack = <<>>
  /\ returned' = [returned EXCEPT ![Call(call.fn, call.maxSolutions)] =
                    IF call.fn = "findFirstSolution"
                      THEN FirstOf(SearchOutcome(numbers, SharedAcc))
                      ELSE SearchOutcome(numbers, SharedAcc)]
  /\ pc' = "returned"
  /\ UNCHANGED <<numbers, target, call, stack, solutions, seenExpressions, webVars, joinVars, poolVars, runVars>>

NextSearch ==
  \/ SearchEntry
  \/ SearchCandidate
  \/ SearchNextPair
  \/ SearchReturn

\* the calls searched in steps: findSolutions with no cap or a cap, and
\* findFirstSolution
SearchedCalls ==
  {Call("findSolutions", Undefined), Call("findFirstSolution", Undefined)}
  \cup {Call("findSolutions", Finite(k)) : k \in 2..MaxCap}

\* line 368, the arguments being valid: the first call of searchSolutions
InitSearchOf(nums, goal, d) ==
  /\ numbers = nums
  /\ target = goal
  /\ pc = "search"
  /\ returned = [e \in Calls |-> NotCalled]
  /\ call = StartedCall(d)
  /\ stack = <<Frame(makeInitialExpressions(nums), makeFraction(goal.value, 1),
                     EffectiveCap(d))>>
  /\ solutions = <<>>
  /\ seenExpressions = {}
  /\ state = InitialState
  /\ drawing = NoDraw
  /\ operands = <<>>
  /\ joined = NotJoined
  /\ heap = NoHeap
  /\ runs = NoRuns

InitSearch ==
  \E nums \in Hands \ {<<>>} : \E t \in 0..MaxTarget : \E d \in SearchedCalls :
    InitSearchOf(nums, Finite(t), d)

SpecSearch == InitSearch /\ [][NextSearch]_vars

\* ------------------------------------------------------------------------
\* The search in steps, with its arrays.  heap holds every array of nodes a
\* call of searchSolutions that has not returned can reach: cells maps the
\* reference of an array to its elements, next counts the arrays made so
\* far, so that no reference is given twice.  A frame holds the reference of
\* its terms and of the remaining of its pair (0 while it has none); an
\* array is dropped from the heap when the call that holds it returns.
\* ------------------------------------------------------------------------
\* a new array with the given elements; its reference is h.next + 1
Allocated(h, items) ==
  [next |-> h.next + 1,
   cells |-> [r \in DOMAIN h.cells \cup {h.next + 1} |->
                IF r = h.next + 1 THEN items ELSE h.cells[r]]]

\* the heap without the arrays no call can reach any more
Freed(h, refs) == [h EXCEPT !.cells = [r \in DOMAIN h.cells \ refs |-> h.cells[r]]]

\* remaining.push(next) followed by a call on remaining itself
pushInPlace(h, ref, next) ==
  [heap |-> [h EXCEPT !.cells[ref] = Append(@, next)], ref |-> ref]

\* line 421, [...remaining, next]: a new array
spreadAppend(h, ref, next) ==
  [heap |-> Allocated(h, h.cells[ref] \o <<next>>), ref |-> h.next + 1]

PoolFrame(ref, goal, maxSolutions) ==
  [terms |-> ref, target |-> goal, maxSolutions |-> maxSolutions,
   at |-> "entry", i |-> 0, j |-> 0, combinedTerms |-> <<>>, c |-> 0, remaining |-> 0]

\* the elements of the terms of a frame
PoolOf(frame) == heap.cells[frame.terms]

\* the call on top returns
PoolReturned(acc) ==
  /\ Shared(acc, Popped)
  /\ heap' = Freed(heap, {Top.terms, Top.remaining})

\* lines 406-416: remaining is made for the pair (i, j) and the pair combined
PoolPair(i, j, acc) ==
  /\ heap' = Allocated(Freed(heap, {Top.remaining}), removePair(PoolOf(Top), i, j))
  /\ AtPair([Top EXCEPT !.remaining = heap.next + 1], i, j,
            combineExpressions(PoolOf(Top)[i], PoolOf(Top)[j]), acc)

\* lines 388-405
PoolEntry ==
  /\ pc = "pools"
  /\ stack # <<>>
  /\ Top.at = "entry"
  /\ IF capReached(solutions, Top.maxSolutions)
       THEN PoolReturned([SharedAcc EXCEPT !.searchCalls = @ + 1])
     ELSE IF IsTerminal(PoolOf(Top), Top.target)
       THEN PoolReturned(recordSolution(PoolOf(Top)[1],
                                        [SharedAcc EXCEPT !.searchCalls = @ + 1]))
     ELSE IF Len(PoolOf(Top)) < 2
       THEN PoolReturned([SharedAcc EXCEPT !.searchCalls = @ + 1])
     ELSE PoolPair(1, 2, [SharedAcc EXCEPT !.searchCalls = @ + 1])
  /\ UNCHANGED <<numbers, target, pc, returned, webVars, joinVars, runVars>>

\* line 421: the call on a new pool
Descent(spread) ==
  /\ heap' = spread.heap
  /\ stack' = Append(ReplacedTop([Top EXCEPT !.c = @ + 1]),
                     PoolFrame(spread.ref, Top.target, Top.maxSolutions))

\* lines 417-422
PoolCandidate ==
  /\ pc = "pools"
  /\ stack # <<>>
  /\ Top.at = "loop"
  /\ Top.c <= Len(Top.combinedTerms)
  /\ IF capReached(solutions, Top.maxSolutions)
       THEN stack' = Popped /\ heap' = Freed(heap, {Top.terms, Top.remaining})
       ELSE Descent(spreadAppend(heap, Top.remaining, Top.combinedTerms[Top.c]))
  /\ UNCHANGED <<numbers, target, pc, returned, call, solutions, seenExpressions,
                 webVars, joinVars, runVars>>

\* lines 404-416
PoolNextPair ==
  /\ pc = "pools"
  /\ stack # <<>>
  /\ Top.at = "loop"
  /\ Top.c > Len(Top.combinedTerms)
  /\ IF Top.j < Len(PoolOf(Top))
       THEN PoolPair(Top.i, Top.j + 1, SharedAcc)
     ELSE IF Top.i + 2 <= Len(PoolOf(Top))
       THEN PoolPair(Top.i + 1, Top.i + 2, SharedAcc)
     ELSE PoolReturned(SharedAcc)
  /\ UNCHANGED <<numbers, target, pc, returned, webVars, joinVars, runVars>>

\* lines 370 and 378
PoolSearchReturn ==
  /\ pc = "pools"
  /\ stack = <<>>
  /\ returned' = [returned EXCEPT ![Call(call.fn, call.maxSolutions)] =
                    IF call.fn = "findFirstSolution"
                      THEN FirstOf(SearchOutcome(numbers, SharedAcc))
                      ELSE SearchOutcome(numbers, SharedAcc)]
  /\ pc' = "returned"
  /\ UNCHANGED <<numbers, target, call, stack, solutions, seenExpressions, webVars,
                 joinVars, poolVars, runVars>>

NextPools ==
  \/ PoolEntry
  \/ PoolCandidate
  \/ PoolNextPair
  \/ PoolSearchReturn

\* lines 364 and 368: makeInitialExpressions makes the array of the first call
InitPoolsOf(nums, goal, d) ==
  /\ numbers = nums
  /\ target = goal
  /\ pc = "pools"
  /\ returned = [e \in Calls |-> NotCalled]
  /\ call = StartedCall(d)
  /\ heap = Allocated(NoHeap, makeInitialExpressions(nums))
  /\ stack = <<PoolFrame(1, makeFraction(goal.value, 1), EffectiveCap(d))>>
  /\ solutions = <<>>
  /\ seenExpressions = {}
  /\ state = InitialState
  /\ drawing = NoDraw
  /\ operands = <<>>
  /\ joined = NotJoined
  /\ runs = NoRuns

InitPools ==
  \E nums \in Hands \ {<<>>} : \E t \in 0..MaxTarget : \E d \in SearchedCalls :
    InitPoolsOf(nums, Finite(t), d)

SpecPools == InitPools /\ [][NextPools]_vars

\* ------------------------------------------------------------------------
\* Two invocations side by side.  runs[id] is everything invocation id of an
\* entry point holds: its arguments, the solutions list and the set of seen
\* expressions that findSolutions makes (lines 365-366) as acc, the calls of
\* searchSolutions that have not returned as stack, and what it gave back.
\* A step is a step of either invocation.
\* ------------------------------------------------------------------------
RunIds == 1..2

\* one set of seen expressions for every invocation
seenExpressionsOfModule(id) == UNION {runs[k].acc.seenExpressions : k \in RunIds}

\* line 366: the set of seen expressions of an invocation is its own
seenExpressionsOf(id) == runs[id].acc.seenExpressions

\* what the steps of invocation id share
RunAcc(id) == [runs[id].acc EXCEPT !.seenExpressions = seenExpressionsOf(id)]

StartedRun(nums, goal, fn) ==
  [numbers |-> nums, target |-> goal, fn |-> fn, acc |-> EmptyAcc,
   stack |-> <<Frame(makeInitialExpressions(nums), makeFraction(goal.value, 1),
                     EffectiveCap(Call(fn, Undefined)))>>,
   returned |-> NotCalled]

RunTop(id) == runs[id].stack[Len(runs[id].stack)]

RunPopped(id) == SubSeq(runs[id].stack, 1, Len(runs[id].stack) - 1)

\* invocation id after a step that leaves its shared objects as acc, its
\* stack as newStack
RunAfter(id, acc, newStack) ==
  runs' = [runs EXCEPT ![id].acc = acc,
                       ![id].stack = IF IsThrow(acc.threw) THEN <<>> ELSE newStack]

RunAtPair(id, i, j, combinedTerms, acc) ==
  IF IsThrow(combinedTerms)
    THEN RunAfter(id, [acc EXCEPT !.threw = combinedTerms], <<>>)
    ELSE RunAfter(id, acc,
                  [runs[id].stack EXCEPT ![Len(runs[id].stack)] =
                     [@ EXCEPT !.at = "loop", !.i = i, !.j = j,
                               !.combinedTerms = combinedTerms.results, !.c = 1]])

RunActive(id) ==
  /\ pc = "runs"
  /\ runs[id].returned = NotCalled
  /\ runs[id].stack # <<>>

\* lines 388-405
RunEntry(id) ==
  /\ RunActive(id)
  /\ RunTop(id).at = "entry"
  /\ IF capReached(runs[id].acc.solutions, RunTop(id).maxSolutions)
       THEN RunAfter(id, [RunAcc(id) EXCEPT !.searchCalls = @ + 1], RunPopped(id))
     ELSE IF IsTerminal(RunTop(id).terms, RunTop(id).target)
       THEN RunAfter(id, recordSolution(RunTop(id).terms[1],
                                        [RunAcc(id) EXCEPT !.searchCalls = @ + 1]),
                     RunPopped(id))
     ELSE IF Len(RunTop(id).terms) < 2
       THEN RunAfter(id, [RunAcc(id) EXCEPT !.searchCalls = @ + 1], RunPopped(id))
     ELSE RunAtPair(id, 1, 2,
                    combineExpressions(RunTop(id).terms[1], RunTop(id).terms[2]),
                    [RunAcc(id) EXCEPT !.searchCalls = @ + 1])
  /\ UNCHANGED <<numbers, target, pc, returned, searchVars, webVars, joinVars, poolVars>>

\* lines 417-422
RunCandidate(id) ==
  /\ RunActive(id)
  /\ RunTop(id).at = "loop"
  /\ RunTop(id).c <= Len(RunTop(id).combinedTerms)
  /\ IF capReached(runs[id].acc.solutions, RunTop(id).maxSolutions)
       THEN runs' = [runs EXCEPT ![id].stack = RunPopped(id)]
       ELSE runs' = [runs EXCEPT ![id].stack =
                       Append([@ EXCEPT ![Len(@)].c = @ + 1],
                              Frame(removePair(RunTop(id).terms, RunTop(id).i, RunTop(id).j)
                                      \o <<RunTop(id).combinedTerms[RunTop(id).c]>>,
                                    RunTop(id).target, RunTop(id).maxSolutions))]
  /\ UNCHANGED <<numbers, target, pc, returned, searchVars, webVars, joinVars, poolVars>>

\* lines 404-416
RunNextPair(id) ==
  /\ RunActive(id)
  /\ RunTop(id).at = "loop"
  /\ RunTop(id).c > Len(RunTop(id).combinedTerms)
  /\ IF RunTop(id).j < Len(RunTop(id).terms)
       THEN RunAtPair(id, RunTop(id).i, RunTop(id).j + 1,
                      combineExpressions(RunTop(id).terms[RunTop(id).i],
                                         RunTop(id).terms[RunTop(id).j + 1]),
                      RunAcc(id))
     ELSE IF RunTop(id).i + 2 <= Len(RunTop(id).terms)
       THEN RunAtPair(id, RunTop(id).i + 1, RunTop(id).i + 2,
                      combineExpressions(RunTop(id).terms[RunTop(id).i + 1],
                                         RunTop(id).terms[RunTop(id).i + 2]),
                      RunAcc(id))
     ELSE RunAfter(id, RunAcc(id), RunPopped(id))
  /\ UNCHANGED <<numbers, target, pc, returned, searchVars, webVars, joinVars, poolVars>>

\* lines 370 and 378
RunReturn(id) ==
  /\ pc = "runs"
  /\ runs[id].returned = NotCalled
  /\ runs[id].stack = <<>>
  /\ runs' = [runs EXCEPT ![id].returned =
                IF runs[id].fn = "findFirstSolution"
                  THEN FirstOf(SearchOutcome(runs[id].numbers, runs[id].acc))
                  ELSE SearchOutcome(runs[id].numbers, runs[id].acc)]
  /\ UNCHANGED <<numbers, target, pc, returned, searchVars, webVars, joinVars, poolVars>>

NextRuns ==
  \E id \in RunIds :
    \/ RunEntry(id)
    \/ RunCandidate(id)
    \/ RunNextPair(id)
    \/ RunReturn(id)

\* the arguments of an invocation
RunHands == SeqsUpTo(1..MaxRunNumber, MaxRunLen) \ {<<>>}

RunArguments ==
  {StartedRun(nums, Finite(t), fn) :
     nums \in RunHands, t \in 1..MaxRunTarget, fn \in {"findSolutions", "findFirstSolution"}}

InitRuns ==
  /\ runs \in [RunIds -> RunArguments]
  /\ numbers = <<>>
  /\ target = Finite(0)
  /\ pc = "runs"
  /\ returned = [e \in Calls |-> NotCalled]
  /\ call = NoCall
  /\ stack = <<>>
  /\ solutions = <<>>
  /\ seenExpressions = {}
  /\ state = InitialState
  /\ drawing = NoDraw
  /\ operands = <<>>
  /\ joined = NotJoined
  /\ heap = NoHeap

SpecRuns == InitRuns /\ [][NextRuns]_vars

\* ------------------------------------------------------------------------
\* The usage example of the README, which is testFindFirstSolution of the
\* tests: one call of findFirstSolution with a hand and a target and no
\* maxSolutions, for the hands of the model and for the hand and the target
\* of the example.
\* ------------------------------------------------------------------------
ReadmeNumbers == <<5, 8, 13, 4, 2, 1>>

ReadmeTarget == Finite(163)

InitReadme ==
  /\ \/ numbers \in Hands /\ target \in Targets
     \/ numbers = ReadmeNumbers /\ target = ReadmeTarget
  /\ pc = "testFindFirstSolution"
  /\ returned = [d \in Calls |-> NotCalled]
  /\ call = NoCall
  /\ stack = <<>>
  /\ solutions = <<>>
  /\ seenExpressions = {}
  /\ state = InitialState
  /\ drawing = NoDraw
  /\ operands = <<>>
  /\ joined = NotJoined
  /\ heap = NoHeap
  /\ runs = NoRuns

TestFindFirstSolution ==
  /\ pc = "testFindFirstSolution"
  /\ returned' = [returned EXCEPT ![Call("findFirstSolution", Undefined)] =
                    findFirstSolution(numbers, [target |-> target, maxSolutions |-> Undefined])]
  /\ pc' = "done"
  /\ UNCHANGED <<numbers, target, searchVars, webVars, joinVars, poolVars, runVars>>

NextReadme == TestFindFirstSolution

SpecReadme == InitReadme /\ [][NextReadme]_vars

\* ------------------------------------------------------------------------
\* Dealing in the web front-end.  drawing holds the deck of the drawCards
\* that is running, the mode it draws for and the index i of shuffle's loop
\* (counted from 0, as in the code; the deck is a sequence from 1).  The deck
\* of the code has 13 ranks of 4 cards; the model's has DeckRanks ranks of 4
\* cards.
\* ------------------------------------------------------------------------
\* deck.push(value), 4 times
RECURSIVE OneRank(_, _)
OneRank(value, suit) ==
  IF suit < DeckSuits THEN <<value>> \o OneRank(value, suit + 1) ELSE <<>>

RECURSIVE DeckFrom(_)
DeckFrom(value) ==
  IF value <= DeckRanks THEN OneRank(value, 0) \o DeckFrom(value + 1) ELSE <<>>

createDeck == DeckFrom(1)

\* an exchange that loses values[i]
Overwritten(values, i, j) == [values EXCEPT ![i + 1] = values[j + 1]]

\* [values[i], values[j]] = [values[j], values[i]]
Swapped(values, i, j) ==
  [values EXCEPT ![i + 1] = values[j + 1], ![j + 1] = values[i + 1]]

\* const deck = createDeck(); shuffle(deck): let i = values.length - 1
StartedDraw(mode) ==
  [kind |-> "draw", mode |-> mode, deck |-> createDeck, i |-> Len(createDeck) - 1]

\* deck.slice(0, NUMBERS_PER_MODE[mode])
slice(values, from, to) == SubSeq(values, from + 1, IF to < Len(values) THEN to ELSE Len(values))

\* the state resetState assigns
DealtState(mode, cards) ==
  [mode |-> mode, numbers |-> cards, initialNumbers |-> cards, history |-> <<>>,
   selectedIndices |-> <<>>, selectedOperation |-> Null, status |-> "idle"]

\* initialize(): the page is loaded, resetState(state.mode)
Initialize ==
  /\ pc = "load"
  /\ drawing' = StartedDraw(state.mode)
  /\ pc' = "shuffle"
  /\ UNCHANGED <<numbers, target, returned, searchVars, state, joinVars, poolVars, runVars>>

\* New Deal clicked: resetState(state.mode)
NewDeal ==
  /\ pc = "idle"
  /\ drawing' = StartedDraw(state.mode)
  /\ pc' = "shuffle"
  /\ UNCHANGED <<numbers, target, returned, searchVars, state, joinVars, poolVars, runVars>>

\* a mode input is checked: resetState(newMode)
ModeChange(newMode) ==
  /\ pc = "idle"
  /\ drawing' = StartedDraw(newMode)
  /\ pc' = "shuffle"
  /\ UNCHANGED <<numbers, target, returned, searchVars, state, joinVars, poolVars, runVars>>

\* one turn of shuffle's loop, j = Math.floor(Math.random() * (i + 1))
ShuffleStep(j) ==
  /\ pc = "shuffle"
  /\ drawing.i > 0
  /\ j <= drawing.i
  /\ drawing' = [drawing EXCEPT !.deck = Swapped(@, drawing.i, j), !.i = @ - 1]
  /\ UNCHANGED <<numbers, target, pc, returned, searchVars, state, joinVars, poolVars, runVars>>

\* shuffle has returned: drawCards returns the slice, resetState assigns state
Deal ==
  /\ pc = "shuffle"
  /\ drawing.i = 0
  /\ state' = DealtState(drawing.mode,
                         slice(drawing.deck, 0, NUMBERS_PER_MODE(drawing.mode)))
  /\ drawing' = NoDraw
  /\ pc' = "idle"
  /\ UNCHANGED <<numbers, target, returned, searchVars, joinVars, poolVars, runVars>>

InitWeb ==
  /\ numbers = <<>>
  /\ target = Undefined
  /\ pc = "load"
  /\ returned = [d \in Calls |-> NotCalled]
  /\ call = NoCall
  /\ stack = <<>>
  /\ solutions = <<>>
  /\ seenExpressions = {}
  /\ state = InitialState
  /\ drawing = NoDraw
  /\ operands = <<>>
  /\ joined = NotJoined
  /\ heap = NoHeap
  /\ runs = NoRuns

NextWeb ==
  \/ Initialize
  \/ NewDeal
  \/ \E newMode \in GameModes : ModeChange(newMode)
  \/ \E j \in 0..(Len(createDeck) - 1) : ShuffleStep(j)
  \/ Deal

SpecWeb == InitWeb /\ [][NextWeb]_vars

\* ------------------------------------------------------------------------
\* The game of the web front-end.  A number of the game is a host number,
\* modelled by the exact fraction it stands for; a history entry is the two
\* numbers, the operation and the result its text is formatted from.
\* drawCards is one step here: it gives the first cards of any order of the
\* deck.
\* ------------------------------------------------------------------------
operations == {"+", "-", "*", "/"}

Operation(sign) == [kind |-> "operation", sign |-> sign]

\* the decks shuffle can leave when only the first turns of the turns of
\* its loop (i from values.length - 1 down) move a card
RECURSIVE ShuffledDecks(_)
ShuffledDecks(turns) ==
  IF turns = 0 \/ turns >= Len(createDeck) THEN {createDeck}
  ELSE {Swapped(deck, Len(createDeck) - turns, j) :
          deck \in ShuffledDecks(turns - 1), j \in 0..(Len(createDeck) - turns)}

\* the hands drawCards gives in a mode after such a shuffle
HandsAfterShuffle(mode) ==
  {slice(deck, 0, NUMBERS_PER_MODE(mode)) : deck \in ShuffledDecks(MaxTurns)}

HandsOf163 == HandsAfterShuffle("163")

HandsOf24 == HandsAfterShuffle("24")

DrawableHands(mode) == IF mode = "163" THEN HandsOf163 ELSE HandsOf24

NumbersOf(cards) == [k \in 1..Len(cards) |-> makeFraction(cards[k], 1)]

\* a division by a number nearer to zero than 1e-9 gives null
compute(a, b, operation) ==
  CASE operation.sign = "+" -> addFractions(a, b)
    [] operation.sign = "-" -> subtractFractions(a, b)
    [] operation.sign = "*" -> multiplyFractions(a, b)
    [] operation.sign = "/" -> IF b.numerator = 0 THEN Null
                               ELSE makeFraction(a.numerator * b.denominator,
                                                 a.denominator * b.numerator)

\* line 253: the numbers at the positions other than the two chosen, in order
filterOthers(values, firstIndex, secondIndex) ==
  SelectSeq([k \in 1..Len(values) |->
               IF k - 1 # firstIndex /\ k - 1 # secondIndex THEN values[k] ELSE Null],
            LAMBDA v : v # Null)

\* lines 263-273: the status once one number is left
FinalStatus(mode, values) ==
  IF Len(values) = 1
    THEN IF fractionsEqual(values[1], makeFraction(TARGET_PER_MODE(mode), 1))
           THEN "success" ELSE "error"
    ELSE "idle"

\* lines 240-248: the operation is rejected
Rejected(s) ==
  [s EXCEPT !.status = "error", !.selectedOperation = Null, !.selectedIndices = <<>>]

\* an operation that drops the two numbers and records no result
AppliedDroppingResult(s, firstIndex, secondIndex, result) ==
  [s EXCEPT !.history = Append(@, [first |-> s.numbers[firstIndex + 1],
                                   operation |-> s.selectedOperation,
                                   second |-> s.numbers[secondIndex + 1],
                                   result |-> result]),
            !.numbers = filterOthers(s.numbers, firstIndex, secondIndex),
            !.selectedIndices = <<>>,
            !.selectedOperation = Null,
            !.status = FinalStatus(s.mode, filterOthers(s.numbers, firstIndex, secondIndex))]

\* lines 250-273: the operation is applied
AppliedOperation(s, firstIndex, secondIndex, result) ==
  [s EXCEPT !.history = Append(@, [first |-> s.numbers[firstIndex + 1],
                                   operation |-> s.selectedOperation,
                                   second |-> s.numbers[secondIndex + 1],
                                   result |-> result]),
            !.numbers = Append(filterOthers(s.numbers, firstIndex, secondIndex), result),
            !.selectedIndices = <<>>,
            !.selectedOperation = Null,
            !.status = FinalStatus(s.mode,
                                   Append(filterOthers(s.numbers, firstIndex, secondIndex),
                                          result))]

AppliedOrRejected(s, firstIndex, secondIndex, result) ==
  IF result = Null THEN Rejected(s)
  ELSE AppliedOperation(s, firstIndex, secondIndex, result)

\* applyOperation on the state s, whose selectedIndices holds two positions
applyOperation(s) ==
  IF s.selectedOperation = Null THEN s
  ELSE AppliedOrRejected(s, s.selectedIndices[1], s.selectedIndices[2],
                         compute(s.numbers[s.selectedIndices[1] + 1],
                                 s.numbers[s.selectedIndices[2] + 1],
                                 s.selectedOperation))

\* handleNumberClick
handleNumberClick(s, index) ==
  IF s.status = "success" THEN s
  ELSE IF s.selectedOperation = Null
    THEN IF s.selectedIndices # <<>> /\ s.selectedIndices[1] = index
           THEN [s EXCEPT !.selectedIndices = <<>>]
           ELSE [s EXCEPT !.selectedIndices = <<index>>]
  ELSE IF Len(s.selectedIndices) = 0 THEN [s EXCEPT !.selectedIndices = <<index>>]
  ELSE IF s.selectedIndices[1] = index THEN s
  ELSE applyOperation([s EXCEPT !.selectedIndices = <<s.selectedIndices[1], index>>])

\* maybeApplyOperation
maybeApplyOperation(s) ==
  IF Len(s.selectedIndices) = 2 /\ s.selectedOperation # Null THEN applyOperation(s) ELSE s

\* handleOperationClick
handleOperationClick(s, operation) ==
  maybeApplyOperation([s EXCEPT !.selectedOperation = IF @ = operation THEN Null
                                                      ELSE operation])

\* a restart that leaves the cards as they are
restartKeepingCards(s, cards) ==
  [s EXCEPT !.history = <<>>, !.selectedIndices = <<>>,
            !.selectedOperation = Null, !.status = "idle"]

\* restartSameHand; cards is what drawCards gives if it is called
restartSameHand(s, cards) ==
  [s EXCEPT !.numbers = IF Len(s.initialNumbers) # 0 THEN s.initialNumbers ELSE cards,
            !.history = <<>>, !.selectedIndices = <<>>,
            !.selectedOperation = Null, !.status = "idle"]

\* a card is clicked
NumberClick(index) ==
  /\ pc = "play"
  /\ index < Len(state.numbers)
  /\ state' = handleNumberClick(state, index)
  /\ Len(state'.history) <= MaxMoves
  /\ UNCHANGED <<numbers, target, pc, returned, searchVars, drawing, joinVars, poolVars,
                 runVars>>

\* an operation button is clicked
OperationClick(sign) ==
  /\ pc = "play"
  /\ state' = handleOperationClick(state, Operation(sign))
  /\ UNCHANGED <<numbers, target, pc, returned, searchVars, drawing, joinVars, poolVars,
                 runVars>>

\* Restart clicked
Restart ==
  /\ pc = "play"
  /\ IF Len(state.initialNumbers) # 0
       THEN state' = restartSameHand(state, <<>>)
       ELSE \E cards \in DrawableHands(state.mode) :
              state' = restartSameHand(state, NumbersOf(cards))
  /\ UNCHANGED <<numbers, target, pc, returned, searchVars, drawing, joinVars, poolVars,
                 runVars>>

\* New Deal clicked: resetState(state.mode)
GameNewDeal ==
  /\ pc = "play"
  /\ \E cards \in DrawableHands(state.mode) :
       state' = DealtState(state.mode, NumbersOf(cards))
  /\ UNCHANGED <<numbers, target, pc, returned, searchVars, drawing, joinVars, poolVars,
                 runVars>>

\* a mode input is checked: resetState(newMode)
GameModeChange(newMode) ==
  /\ pc = "play"
  /\ \E cards \in DrawableHands(newMode) :
       state' = DealtState(newMode, NumbersOf(cards))
  /\ UNCHANGED <<numbers, target, pc, returned, searchVars, drawing, joinVars, poolVars,
                 runVars>>

\* initialize() has run: resetState(state.mode) on the initial state
InitGame ==
  /\ numbers = <<>>
  /\ target = Undefined
  /\ pc = "play"
  /\ returned = [d \in Calls |-> NotCalled]
  /\ call = NoCall
  /\ stack = <<>>
  /\ solutions = <<>>
  /\ seenExpressions = {}
  /\ \E cards \in DrawableHands(InitialState.mode) :
       state = DealtState(InitialState.mode, NumbersOf(cards))
  /\ drawing = NoDraw
  /\ operands = <<>>
  /\ joined = NotJoined
  /\ heap = NoHeap
  /\ runs = NoRuns

NextGame ==
  \/ \E index \in 0..(NUMBERS_PER_MODE("163") - 1) : NumberClick(index)
  \/ \E sign \in operations : OperationClick(sign)
  \/ Restart
  \/ GameNewDeal
  \/ \E newMode \in GameModes : GameModeChange(newMode)

SpecGame == InitGame /\ [][NextGame]_vars

\* ------------------------------------------------------------------------
\* The joins and the combiner on their own: operands holds two or three
\* nodes of a pool, each a leaf or a candidate that combineExpressions builds
\* from two leaves; an action applies joinAddGroup, joinMulGroup or
\* combineExpressions and keeps what it gave in joined.
\* ------------------------------------------------------------------------
Leaves == {NumericExpression(n) : n \in 0..MaxJoinNumber}

\* the list a call of combineExpressions gave, or the error it threw
ResultsOrThrown(combined) == IF IsThrow(combined) THEN <<combined>> ELSE combined.results

CandidatesOf(combined) ==
  IF IsThrow(combined) THEN {} ELSE {combined.results[k] : k \in 1..Len(combined.results)}

\* the nodes of at most two leaves
SmallNodes ==
  Leaves \cup UNION {CandidatesOf(combineExpressions(a, b)) : a \in Leaves, b \in Leaves}

Joined(op, flag, results) ==
  [kind |-> "joined", op |-> op, flag |-> flag, results |-> results]

\* joinAddGroup(first, second, negateSecond)
JoinAdd(negateSecond) ==
  /\ pc = "operands"
  /\ Len(operands) = 2
  /\ joined' = Joined("joinAddGroup", negateSecond,
                      <<joinAddGroup(operands[1], operands[2], negateSecond)>>)
  /\ pc' = "joined"
  /\ UNCHANGED <<numbers, target, returned, searchVars, webVars, poolVars, runVars, operands>>

\* joinMulGroup(first, second, invertSecond)
JoinMul(invertSecond) ==
  /\ pc = "operands"
  /\ Len(operands) = 2
  /\ joined' = Joined("joinMulGroup", invertSecond,
                      <<joinMulGroup(operands[1], operands[2], invertSecond)>>)
  /\ pc' = "joined"
  /\ UNCHANGED <<numbers, target, returned, searchVars, webVars, poolVars, runVars, operands>>

\* combineExpressions(first, second)
Combine ==
  /\ pc = "operands"
  /\ Len(operands) = 2
  /\ joined' = Joined("combineExpressions", FALSE,
                      ResultsOrThrown(combineExpressions(operands[1], operands[2])))
  /\ pc' = "joined"
  /\ UNCHANGED <<numbers, target, returned, searchVars, webVars, poolVars, runVars, operands>>

\* a join of a node with what a join gave, which is no node when that join
\* gave none
AddToJoined(first, second, negateSecond) ==
  IF IsNull(first) \/ IsNull(second) THEN Null ELSE joinAddGroup(first, second, negateSecond)

MulToJoined(first, second, invertSecond) ==
  IF IsNull(first) \/ IsNull(second) THEN Null ELSE joinMulGroup(first, second, invertSecond)

\* three nodes A, B, C of a pool joined additively along the paths a search
\* takes: (A+B)+C, A+(B+C), (A+C)+B, A-(B-C), (A+C)-B
DeriveSums ==
  /\ pc = "operands"
  /\ Len(operands) = 3
  /\ joined' = Joined("sums", FALSE,
       << AddToJoined(joinAddGroup(operands[1], operands[2], FALSE), operands[3], FALSE),
          AddToJoined(operands[1], joinAddGroup(operands[2], operands[3], FALSE), FALSE),
          AddToJoined(joinAddGroup(operands[1], operands[3], FALSE), operands[2], FALSE),
          AddToJoined(operands[1], joinAddGroup(operands[2], operands[3], TRUE), TRUE),
          AddToJoined(joinAddGroup(operands[1], operands[3], FALSE), operands[2], TRUE) >>)
  /\ pc' = "joined"
  /\ UNCHANGED <<numbers, target, returned, searchVars, webVars, poolVars, runVars, operands>>

\* the same multiplicatively: (A*B)*C, A*(B*C), (A*C)*B, A/(B/C), (A*C)/B
DeriveProducts ==
  /\ pc = "operands"
  /\ Len(operands) = 3
  /\ joined' = Joined("products", FALSE,
       << MulToJoined(joinMulGroup(operands[1], operands[2], FALSE), operands[3], FALSE),
          MulToJoined(operands[1], joinMulGroup(operands[2], operands[3], FALSE), FALSE),
          MulToJoined(joinMulGroup(operands[1], operands[3], FALSE), operands[2], FALSE),
          MulToJoined(operands[1], joinMulGroup(operands[2], operands[3], TRUE), TRUE),
          MulToJoined(joinMulGroup(operands[1], operands[3], FALSE), operands[2], TRUE) >>)
  /\ pc' = "joined"
  /\ UNCHANGED <<numbers, target, returned, searchVars, webVars, poolVars, runVars, operands>>

InitJoin ==
  /\ numbers = <<>>
  /\ target = Undefined
  /\ pc = "operands"
  /\ returned = [d \in Calls |-> NotCalled]
  /\ call = NoCall
  /\ stack = <<>>
  /\ solutions = <<>>
  /\ seenExpressions = {}
  /\ state = InitialState
  /\ drawing = NoDraw
  /\ operands \in {<<a, b>> : a \in SmallNodes, b \in SmallNodes}
                   \cup {<<a, b, c>> : a \in SmallNodes, b \in SmallNodes, c \in SmallNodes}
  /\ joined = NotJoined
  /\ heap = NoHeap
  /\ runs = NoRuns

NextJoin ==
  \/ \E negateSecond \in BOOLEAN : JoinAdd(negateSecond)
  \/ \E invertSecond \in BOOLEAN : JoinMul(invertSecond)
  \/ Combine
  \/ DeriveSums
  \/ DeriveProducts

SpecJoin == InitJoin /\ [][NextJoin]_vars

\* ------------------------------------------------------------------------
\* The fraction operations on their own: operands holds two integers, or two
\* fractions that makeFraction made of integers; an action applies one
\* operation and keeps what it gave in joined.
\* ------------------------------------------------------------------------
FractionParts == (-MaxFractionPart)..MaxFractionPart

MadeFractions == {makeFraction(n, d) : n \in FractionParts, d \in FractionParts \ {0}}

\* makeFraction(numerator, denominator)
MakeFraction ==
  /\ pc = "integers"
  /\ joined' = Joined("makeFraction", FALSE, <<makeFraction(operands[1], operands[2])>>)
  /\ pc' = "made"
  /\ UNCHANGED <<numbers, target, returned, searchVars, webVars, poolVars, runVars, operands>>

FractionResult(op, a, b) ==
  CASE op = "addFractions" -> addFractions(a, b)
    [] op = "subtractFractions" -> subtractFractions(a, b)
    [] op = "multiplyFractions" -> multiplyFractions(a, b)
    [] op = "divideFractions" -> divideFractions(a, b)

FractionOperations ==
  {"addFractions", "subtractFractions", "multiplyFractions", "divideFractions"}

\* addFractions(a, b), subtractFractions(a, b), multiplyFractions(a, b) or
\* divideFractions(a, b)
ApplyFractions(op) ==
  /\ pc = "fractions"
  /\ joined' = Joined(op, FALSE, <<FractionResult(op, operands[1], operands[2])>>)
  /\ pc' = "made"
  /\ UNCHANGED <<numbers, target, returned, searchVars, webVars, poolVars, runVars, operands>>

InitFraction ==
  /\ numbers = <<>>
  /\ target = Undefined
  /\ returned = [d \in Calls |-> NotCalled]
  /\ call = NoCall
  /\ stack = <<>>
  /\ solutions = <<>>
  /\ seenExpressions = {}
  /\ state = InitialState
  /\ drawing = NoDraw
  /\ \/ pc = "integers" /\ operands \in {<<n, d>> : n \in FractionParts, d \in FractionParts}
     \/ pc = "fractions" /\ operands \in {<<a, b>> : a \in MadeFractions, b \in MadeFractions}
  /\ joined = NotJoined
  /\ heap = NoHeap
  /\ runs = NoRuns

NextFraction ==
  \/ MakeFraction
  \/ \E op \in FractionOperations : ApplyFractions(op)

SpecFraction == InitFraction /\ [][NextFraction]_vars

\* ------------------------------------------------------------------------
\* Reading a text back: the value of an expression text under the usual
\* precedence of + - * / and parentheses, in exact rational arithmetic.
\* A rational is a pair <<n, d>>; d = 0 marks a value that is not defined.
\* ------------------------------------------------------------------------
NoRat == <<0, 0>>

RatDefined(a) == a[2] # 0

RatAdd(a, b) ==
  IF RatDefined(a) /\ RatDefined(b) THEN <<a[1] * b[2] + b[1] * a[2], a[2] * b[2]>>
  ELSE NoRat

RatSub(a, b) ==
  IF RatDefined(a) /\ RatDefined(b) THEN <<a[1] * b[2] - b[1] * a[2], a[2] * b[2]>>
  ELSE NoRat

RatMul(a, b) ==
  IF RatDefined(a) /\ RatDefined(b) THEN <<a[1] * b[1], a[2] * b[2]>> ELSE NoRat

RatDiv(a, b) ==
  IF RatDefined(a) /\ RatDefined(b) /\ b[1] # 0 THEN <<a[1] * b[2], a[2] * b[1]>>
  ELSE NoRat

RatEq(a, b) == RatDefined(a) /\ RatDefined(b) /\ a[1] * b[2] = b[1] * a[2]

DigitChars == {"0", "1", "2", "3", "4", "5", "6", "7", "8", "9"}

DigitValue(c) == CollationRank(c) - CollationRank("0")

CharAt(text, pos) == IF pos <= Len(text) THEN text[pos] ELSE "end"

\* a parse is the value read and the position after it; pos = 0 marks a
\* text that is no expression
NoParse == [val |-> NoRat, pos |-> 0]

RECURSIVE ParseDigits(_, _, _)
ParseDigits(text, pos, n) ==
  IF CharAt(text, pos) \in DigitChars
    THEN ParseDigits(text, pos + 1, 10 * n + DigitValue(text[pos]))
    ELSE [val |-> <<n, 1>>, pos |-> pos]

RECURSIVE ParseExpr(_, _)
RECURSIVE ParseTerm(_, _)
RECURSIVE ParseFactor(_, _)
RECURSIVE ExprRest(_, _)
RECURSIVE TermRest(_, _)

Closed(text, inner) ==
  IF inner.pos # 0 /\ CharAt(text, inner.pos) = ")"
    THEN [val |-> inner.val, pos |-> inner.pos + 1]
    ELSE NoParse

Negated(inner) ==
  IF inner.pos # 0 THEN [val |-> RatSub(<<0, 1>>, inner.val), pos |-> inner.pos]
  ELSE NoParse

ParseFactor(text, pos) ==
  IF CharAt(text, pos) = "(" THEN Closed(text, ParseExpr(text, pos + 1))
  ELSE IF CharAt(text, pos) = "-" THEN Negated(ParseFactor(text, pos + 1))
  ELSE IF CharAt(text, pos) \in DigitChars THEN ParseDigits(text, pos, 0)
  ELSE NoParse

Applied(text, op, left, right) ==
  IF right.pos = 0 THEN NoParse
  ELSE [val |-> CASE op = "+" -> RatAdd(left.val, right.val)
                  [] op = "-" -> RatSub(left.val, right.val)
                  [] op = "*" -> RatMul(left.val, right.val)
                  [] op = "/" -> RatDiv(left.val, right.val),
        pos |-> right.pos]

TermRest(text, left) ==
  IF left.pos = 0 THEN NoParse
  ELSE IF CharAt(text, left.pos) \in {"*", "/"}
    THEN TermRest(text, Applied(text, text[left.pos], left,
                                ParseFactor(text, left.pos + 1)))
  ELSE left

ParseTerm(text, pos) == TermRest(text, ParseFactor(text, pos))

ExprRest(text, left) ==
  IF left.pos = 0 THEN NoParse
  ELSE IF CharAt(text, left.pos) \in {"+", "-"}
    THEN ExprRest(text, Applied(text, text[left.pos], left,
                                ParseTerm(text, left.pos + 1)))
  ELSE left

ParseExpr(text, pos) == ExprRest(text, ParseTerm(text, pos))

WholeText(text, parsed) ==
  IF parsed.pos = Len(text) + 1 THEN parsed.val ELSE NoRat

Evaluate(text) == WholeText(text, ParseExpr(text, 1))

\* ------------------------------------------------------------------------
\* What the calls of a state gave back
\* ------------------------------------------------------------------------
CalledCalls == {d \in Calls : WasCalled(d)}

ReturnedList(d) == WasCalled(d) /\ returned[d].result.kind = "list"

ReturnedSolution(d) == WasCalled(d) /\ returned[d].result.kind = "solution"

ReturnedNull(d) == WasCalled(d) /\ returned[d].result.kind = "null"

Threw(d) == WasCalled(d) /\ returned[d].result.kind = "throw"

\* the Solutions a call gave back
SolutionsOf(d) ==
  IF ReturnedList(d) THEN {returned[d].result.list[k] : k \in 1..Len(returned[d].result.list)}
  ELSE IF ReturnedSolution(d) THEN {returned[d].result.solution}
  ELSE {}

Uncapped == Call("findSolutions", Undefined)

CappedAt(k) == Call("findSolutions", Finite(k))

\* C1: every Solution a call returns is an exact match: its value is the
\* reduced fraction target/1, and its expression text, read back with the
\* usual precedence in exact rational arithmetic, is the target.
C1_ExactMatch ==
  \A d \in CalledCalls : \A sol \in SolutionsOf(d) :
    /\ IsFinite(target)
    /\ sol.value = <<target.value, 1>>
    /\ RatEq(Evaluate(sol.expression), <<target.value, 1>>)

\* a returned Solution whose text nests a group in parentheses and divides
C1_Witness ==
  \E d \in CalledCalls : \E sol \in SolutionsOf(d) :
    \E a, b \in 1..Len(sol.expression) :
      sol.expression[a] = "(" /\ sol.expression[b] = "/"

\* C2: no two Solutions of one returned list have the same expression text.
C2_NoDuplicateText ==
  \A d \in CalledCalls :
    ReturnedList(d) =>
      \A a, b \in 1..Len(returned[d].result.list) :
        a # b => returned[d].result.list[a].expression
                   # returned[d].result.list[b].expression

\* a search that met the same text more than once and returned several
C2_Witness ==
  \E d \in CalledCalls :
    /\ ReturnedList(d)
    /\ Len(returned[d].result.list) >= 2
    /\ returned[d].matches > Len(returned[d].result.list)

\* C3: with cap k > 0 findSolutions returns at most k Solutions, and exactly
\* k when the search without cap returns at least k.
C3_CapEnforced ==
  \A k \in 1..MaxCap :
    ReturnedList(CappedAt(k)) =>
      /\ Len(returned[CappedAt(k)].result.list) <= k
      /\ ReturnedList(Uncapped)
      /\ Len(returned[Uncapped].result.list) >= k
           => Len(returned[CappedAt(k)].result.list) = k

\* cap 1 returned one Solution where the search without cap has several
C3_Witness ==
  /\ ReturnedList(CappedAt(1))
  /\ Len(returned[CappedAt(1)].result.list) = 1
  /\ ReturnedList(Uncapped)
  /\ Len(returned[Uncapped].result.list) > 1

FirstWith(m) == Call("findFirstSolution", m)

\* C4: findFirstSolution, whatever maxSolutions it is passed, returns a
\* Solution exactly when findSolutions with cap 1 returns a one-element
\* list, and then that element; it returns null when that list is empty, and
\* throws only the error findSolutions with cap 1 throws.
C4_FirstIsCapOne ==
  \A m \in MaxOptions :
    WasCalled(FirstWith(m)) =>
      /\ WasCalled(CappedAt(1))
      /\ ReturnedSolution(FirstWith(m))
           <=> (ReturnedList(CappedAt(1)) /\ Len(returned[CappedAt(1)].result.list) = 1)
      /\ ReturnedSolution(FirstWith(m))
           => returned[FirstWith(m)].result.solution = returned[CappedAt(1)].result.list[1]
      /\ ReturnedNull(FirstWith(m))
           <=> (ReturnedList(CappedAt(1)) /\ Len(returned[CappedAt(1)].result.list) = 0)
      /\ Threw(FirstWith(m))
           <=> (Threw(CappedAt(1)) /\ returned[FirstWith(m)].result = returned[CappedAt(1)].result)

\* findFirstSolution passed maxSolutions 0 returned a Solution
C4_Witness ==
  /\ ReturnedSolution(FirstWith(Finite(0)))
  /\ ReturnedList(CappedAt(1))
  /\ Len(returned[CappedAt(1)].result.list) = 1

\* the results of combining two rationals: sum, product, both differences,
\* and each quotient whose divisor is not zero
PairResults(a, b) ==
  {RatAdd(a, b), RatMul(a, b), RatSub(a, b), RatSub(b, a)}
  \cup (IF b[1] # 0 THEN {RatDiv(a, b)} ELSE {})
  \cup (IF a[1] # 0 THEN {RatDiv(b, a)} ELSE {})

Without(vals, i, j) ==
  SelectSeq([k \in 1..Len(vals) |-> IF k # i /\ k # j THEN vals[k] ELSE NoRat], RatDefined)

\* some way of replacing two values by a result, again and again, ends in goal
RECURSIVE CanReach(_, _)
CanReach(vals, goal) ==
  IF Len(vals) = 1 THEN RatEq(vals[1], goal)
  ELSE \E i \in 1..Len(vals) : \E j \in (i + 1)..Len(vals) :
         \E r \in PairResults(vals[i], vals[j]) :
           CanReach(Without(vals, i, j) \o <<r>>, goal)

Reachable == CanReach([k \in 1..Len(numbers) |-> <<numbers[k], 1>>], <<target.value, 1>>)

ValidInput == Len(numbers) > 0 /\ IsFinite(target)

\* C5: on a valid input the search without cap returns a non-empty list, and
\* findFirstSolution a Solution, exactly when the target can be reached from
\* the numbers; otherwise they return the empty list and null, not an error.
C5_Exhaustive ==
  ValidInput =>
    /\ WasCalled(Uncapped) =>
         /\ ReturnedList(Uncapped)
         /\ Len(returned[Uncapped].result.list) > 0 <=> Reachable
    /\ \A m \in MaxOptions :
         WasCalled(FirstWith(m)) =>
           /\ ReturnedSolution(FirstWith(m)) <=> Reachable
           /\ ReturnedNull(FirstWith(m)) <=> ~Reachable

\* a hand of three numbers that cannot reach the target: empty list and null
C5_Witness ==
  /\ ValidInput
  /\ Len(numbers) >= 3
  /\ ~Reachable
  /\ ReturnedList(Uncapped)
  /\ returned[Uncapped].result.list = <<>>
  /\ \E m \in MaxOptions : ReturnedNull(FirstWith(m))

ValidationMessages ==
  {"The numbers array must contain at least one entry.",
   "Target must be a finite number.",
   "maxSolutions must be greater than zero."}

\* C6: findSolutions called with no numbers, a target that is not finite or
\* a cap of zero or less throws a validation error, having built no leaf and
\* entered no search step; it returns no list.
C6_ValidationFirst ==
  \A m \in MaxOptions :
    (/\ WasCalled(Call("findSolutions", m))
     /\ (Len(numbers) = 0 \/ ~IsFinite(target) \/ (IsFinite(m) /\ m.value <= 0)))
    => /\ Threw(Call("findSolutions", m))
       /\ returned[Call("findSolutions", m)].result.message \in ValidationMessages
       /\ returned[Call("findSolutions", m)].leavesBuilt = 0
       /\ returned[Call("findSolutions", m)].searchCalls = 0

\* cap 0 on a hand and a target that are valid: the cap error
C6_Witness ==
  /\ ValidInput
  /\ Threw(Call("findSolutions", Finite(0)))
  /\ returned[Call("findSolutions", Finite(0))].result.message
       = "maxSolutions must be greater than zero."

\* C7: on a non-empty hand, a finite target and a positive (or no) cap
\* findSolutions returns a list; no call ever throws the division-by-zero
\* error of the MulGroup constructor or the zero-denominator error of
\* makeFraction.
C7_NoArithmeticError ==
  \A d \in CalledCalls :
    /\ Threw(d) => returned[d].result.message \in ValidationMessages
    /\ (/\ ValidInput
        /\ d.fn = "findSolutions"
        /\ ~(IsFinite(d.maxSolutions) /\ d.maxSolutions.value <= 0))
       => ReturnedList(d)

\* a hand holding a 0, so that a division by it was dropped, and Solutions
\* all the same
C7_Witness ==
  /\ \E k \in 1..Len(numbers) : numbers[k] = 0
  /\ Len(numbers) >= 3
  /\ ReturnedList(Uncapped)
  /\ Len(returned[Uncapped].result.list) > 0

Min(a, b) == IF a < b THEN a ELSE b

\* the pool of the call of searchSolutions that is running; every call is the
\* running one when it is entered
Pools == IF stack = <<>> THEN {} ELSE {Top.terms}

\* the text of a join, or what it gave in place of a node
Rendered(made) == IF IsThrow(made) \/ IsNull(made) THEN made ELSE repr(made)

JoinsCommute(A, B) ==
  /\ Rendered(joinAddGroup(A, B, FALSE)) = Rendered(joinAddGroup(B, A, FALSE))
  /\ Rendered(joinMulGroup(A, B, FALSE)) = Rendered(joinMulGroup(B, A, FALSE))

\* C8: for any two nodes A and B of a pool of the search, the additive join
\* of (A, B) and of (B, A) without negation render to the same text, and so
\* do the multiplicative joins of (A, B) and of (B, A) without inversion
\* (both are no node when the product is undefined).
C8_JoinsCommute ==
  \A pool \in Pools : \A i, j \in 1..Len(pool) :
    i < j => JoinsCommute(pool[i], pool[j])

\* the join of kind groupKind lists its members in one order for (A, B) and
\* in another for (B, A)
MembersDiffer(groupKind, A, B) ==
  \/ JoinedPositives(groupKind, A, B, FALSE) # JoinedPositives(groupKind, B, A, FALSE)
  \/ JoinedNegatives(groupKind, A, B, FALSE) # JoinedNegatives(groupKind, B, A, FALSE)

\* a pool holds a sum A with a negative member and another node B: both
\* joins list their members in two orders, both give a node, and the texts
\* agree
C8_Witness ==
  \E pool \in Pools : \E i, j \in 1..Len(pool) :
    /\ i # j
    /\ pool[i].kind = "AddGroup"
    /\ pool[i].negatives # <<>>
    /\ MembersDiffer("AddGroup", pool[i], pool[j])
    /\ MembersDiffer("MulGroup", pool[i], pool[j])
    /\ IsNode(joinMulGroup(pool[i], pool[j], FALSE))
    /\ JoinsCommute(pool[i], pool[j])

\* C9: the list returned with cap k is the first min(k, total) elements of
\* the list returned without cap, and findFirstSolution returns its first
\* element (null when it is empty).
C9_CapIsPrefix ==
  ReturnedList(Uncapped) =>
    /\ \A k \in 1..MaxCap :
         WasCalled(CappedAt(k)) =>
           /\ ReturnedList(CappedAt(k))
           /\ returned[CappedAt(k)].result.list
                = SubSeq(returned[Uncapped].result.list, 1,
                         Min(k, Len(returned[Uncapped].result.list)))
    /\ \A m \in MaxOptions :
         WasCalled(FirstWith(m)) =>
           IF returned[Uncapped].result.list = <<>> THEN ReturnedNull(FirstWith(m))
           ELSE /\ ReturnedSolution(FirstWith(m))
                /\ returned[FirstWith(m)].result.solution
                     = returned[Uncapped].result.list[1]

\* cap 2 returned the first two of at least three Solutions
C9_Witness ==
  /\ ReturnedList(CappedAt(2))
  /\ ReturnedList(Uncapped)
  /\ Len(returned[Uncapped].result.list) >= 3
  /\ Len(returned[CappedAt(2)].result.list) = 2

\* the search in steps gives back what the recursion gives back
StepwiseAgrees ==
  pc = "returned" =>
    returned[Call(call.fn, call.maxSolutions)] =
      IF call.fn = "findFirstSolution"
        THEN findFirstSolution(numbers, [target |-> target, maxSolutions |-> call.maxSolutions])
        ELSE findSolutions(numbers, [target |-> target, maxSolutions |-> call.maxSolutions])

\* (5 + 8) * 13 - (4 + 2) * 1
ReadmeExpression ==
  <<"(", "5", " ", "+", " ", "8", ")", " ", "*", " ", "1", "3", " ", "-", " ",
    "(", "4", " ", "+", " ", "2", ")", " ", "*", " ", "1">>

\* C10: for the numbers 5, 8, 13, 4, 2, 1 and the target 163 the Solution
\* that findFirstSolution returns has the expression
\* "(5 + 8) * 13 - (4 + 2) * 1".
C10_ReadmeExpression ==
  (/\ pc = "done"
   /\ numbers = ReadmeNumbers
   /\ target = ReadmeTarget)
  => /\ ReturnedSolution(FirstWith(Undefined))
     /\ returned[FirstWith(Undefined)].result.solution.expression = ReadmeExpression

\* how often rank occurs in cards
Occurrences(rank, cards) == Cardinality({k \in 1..Len(cards) : cards[k] = rank})

\* cards is drawn from the deck without replacement
DrawnFromDeck(cards) ==
  /\ \A k \in 1..Len(cards) : cards[k] \in 1..DeckRanks
  /\ \A rank \in 1..DeckRanks : Occurrences(rank, cards) <= 4

\* C11: every hand the web front-end has dealt (on load, on New Deal, on a
\* mode change) has exactly 6 numbers in mode 163 and 4 in mode 24, each a
\* rank of the deck, no rank more than four times; the deck that shuffle
\* works on is at every step a permutation of the deck createDeck built, four
\* cards of every rank.
C11_DealtFromDeck ==
  /\ state.initialNumbers # <<>> =>
       /\ state.mode = "163" => Len(state.initialNumbers) = 6
       /\ state.mode = "24" => Len(state.initialNumbers) = 4
       /\ DrawnFromDeck(state.initialNumbers)
  /\ drawing # NoDraw =>
       /\ Len(drawing.deck) = 4 * DeckRanks
       /\ \A rank \in 1..DeckRanks : Occurrences(rank, drawing.deck) = 4
       /\ \A k \in 1..Len(drawing.deck) : drawing.deck[k] \in 1..DeckRanks

\* a hand of mode 24 has been dealt after a mode change from mode 163; it
\* holds all four cards of one rank and is not the top of the unshuffled deck
C11_Witness ==
  /\ pc = "idle"
  /\ state.mode = "24"
  /\ \E rank \in 1..DeckRanks : Occurrences(rank, state.initialNumbers) = 4
  /\ state.initialNumbers # slice(createDeck, 0, 4)
  /\ state.numbers = state.initialNumbers

\* the groups of the pool of the running call
PoolGroups ==
  UNION {{pool[k] : k \in {n \in 1..Len(pool) : pool[n].kind # "NumericExpression"}} :
         pool \in Pools}

\* the members of a group
Members(group) ==
  {group.positives[k] : k \in 1..Len(group.positives)}
  \cup {group.negatives[k] : k \in 1..Len(group.negatives)}

\* part occurs in text
Occurs(part, text) ==
  \E from \in 1..(Len(text) - Len(part) + 1) :
    SubSeq(text, from, from + Len(part) - 1) = part

\* the text of member stands in the text of group inside parentheses
Enclosed(member, group) == Occurs(<<"(">> \o repr(member) \o <<")">>, repr(group))

\* no group holds a group of its own kind
NoSameKindMember(group) == \A member \in Members(group) : member.kind # group.kind

\* C12 as claimed: every member of the other group kind is rendered inside
\* parentheses, a product in a sum as well as a sum in a product, and no
\* group holds a member of its own kind.
C12_OtherKindParenthesized ==
  \A group \in PoolGroups :
    /\ NoSameKindMember(group)
    /\ \A member \in Members(group) :
         member.kind \notin {"NumericExpression", group.kind} => Enclosed(member, group)

\* C12 as amended: a sum that is a factor or divisor of a product is rendered
\* inside parentheses; a product that is a positive or negative member of a
\* sum is rendered without parentheses; no group holds a member of its own
\* kind.
C12_SumsParenthesized ==
  \A group \in PoolGroups :
    /\ NoSameKindMember(group)
    /\ \A member \in Members(group) :
         /\ (group.kind = "MulGroup" /\ member.kind = "AddGroup") => Enclosed(member, group)
         /\ (group.kind = "AddGroup" /\ member.kind = "MulGroup") =>
              /\ Occurs(repr(member), repr(group))
              /\ ~Enclosed(member, group)

\* a pool holds a sum that subtracts a product
C12_Witness ==
  \E group \in PoolGroups :
    /\ group.kind = "AddGroup"
    /\ \E k \in 1..Len(group.negatives) :
         /\ group.negatives[k].kind = "MulGroup"
         /\ Occurs(<<"-">> \o repr(group.negatives[k]), repr(group))
         /\ ~Enclosed(group.negatives[k], group)

\* the nodes a join was given and the nodes it built
JoinedNodes ==
  IF joined = NotJoined THEN {}
  ELSE {joined.results[k] : k \in {n \in 1..Len(joined.results) :
                                     ~IsNull(joined.results[n]) /\ ~IsThrow(joined.results[n])}}

OperandNodes == {operands[k] : k \in 1..Len(operands)}

\* no group within node, at any depth, holds a group of its own kind
RECURSIVE Flat(_)
Flat(node) ==
  node.kind = "NumericExpression"
  \/ \A member \in Members(node) : member.kind # node.kind /\ Flat(member)

\* C13: no sum has a sum among its positive or negative members and no
\* product has a product among them, in the nodes a join is given and in the
\* nodes it builds, at any depth.
C13_NeverNested == \A node \in OperandNodes \cup JoinedNodes : Flat(node)

\* a group has been joined with the negation or the inverse of a group of its
\* kind: the node built holds the four leaves and no group
C13_Witness ==
  /\ pc = "joined"
  /\ operands[1].kind = operands[2].kind
  /\ operands[1].kind \in {"AddGroup", "MulGroup"}
  /\ joined.op = (IF operands[1].kind = "AddGroup" THEN "joinAddGroup" ELSE "joinMulGroup")
  /\ joined.flag
  /\ \E node \in JoinedNodes :
       /\ Cardinality(DOMAIN node.positives) + Cardinality(DOMAIN node.negatives) = 4
       /\ \A member \in Members(node) : member.kind = "NumericExpression"

\* the texts of what the join kept in joined built, from its k-th result on
TextOf(k) == Rendered(joined.results[k])

\* C14: for three nodes A, B, C the text of a combination does not depend on
\* the order it was built in: (A+B)+C, A+(B+C) and (A+C)+B have one text,
\* A-(B-C) has the text of (A+C)-B, (A*B)*C, A*(B*C) and (A*C)*B have one
\* text, and A/(B/C) has the text of (A*C)/B whenever both are nodes.
C14_BuildOrderIrrelevant ==
  (pc = "joined" /\ joined.op \in {"sums", "products"}) =>
    /\ TextOf(1) = TextOf(2)
    /\ TextOf(1) = TextOf(3)
    /\ ~IsNull(joined.results[1])
    /\ (~IsNull(joined.results[4]) /\ ~IsNull(joined.results[5])) => TextOf(4) = TextOf(5)

\* three nodes of one value and three texts, two of them groups, have been
\* joined into a sum along the five paths: the member lists differ, the
\* texts agree
C14_Witness ==
  /\ pc = "joined"
  /\ joined.op = "sums"
  /\ operands[1].fraction = operands[2].fraction
  /\ operands[2].fraction = operands[3].fraction
  /\ operands[2].kind = "MulGroup"
  /\ operands[3].kind = "MulGroup"
  /\ Cardinality({repr(operands[k]) : k \in 1..3}) = 3
  /\ joined.results[1].positives # joined.results[3].positives
  /\ TextOf(1) = TextOf(3)
  /\ TextOf(4) = TextOf(5)

\* the cached value of a node, as a rational
RatOf(node) == <<node.fraction.numerator, node.fraction.denominator>>

\* the sum and the product of the values of members, taken from the last
\* member to the first
RECURSIVE SumOfValues(_)
SumOfValues(members) ==
  IF members = <<>> THEN <<0, 1>>
  ELSE RatAdd(SumOfValues(Tail(members)), RatOf(Head(members)))

RECURSIVE ProductOfValues(_)
ProductOfValues(members) ==
  IF members = <<>> THEN <<1, 1>>
  ELSE RatMul(ProductOfValues(Tail(members)), RatOf(Head(members)))

\* the value the members of a group stand for
ValueOfMembers(group) ==
  IF group.kind = "AddGroup"
    THEN RatSub(SumOfValues(group.positives), SumOfValues(group.negatives))
    ELSE RatDiv(ProductOfValues(group.positives), ProductOfValues(group.negatives))

\* the value a join of first and second is to have
ValueOfJoin(op, flag, first, second) ==
  IF op = "joinAddGroup"
    THEN (IF flag THEN RatSub(RatOf(first), RatOf(second))
                  ELSE RatAdd(RatOf(first), RatOf(second)))
    ELSE (IF flag THEN RatDiv(RatOf(first), RatOf(second))
                  ELSE RatMul(RatOf(first), RatOf(second)))

\* C15: the node an additive join builds has the value A+B, or A-B when the
\* second operand is negated; the node a multiplicative join builds has the
\* value A*B, or A/B when the second operand is inverted; and the cached
\* value of every group is the sum of its positives minus the sum of its
\* negatives, or the product of its positives over the product of its
\* negatives, in whatever order they are taken.
C15_ValuePreserved ==
  /\ \A node \in OperandNodes \cup JoinedNodes :
       node.kind # "NumericExpression" => RatEq(RatOf(node), ValueOfMembers(node))
  /\ (pc = "joined" /\ joined.op \in {"joinAddGroup", "joinMulGroup"}) =>
       \A node \in JoinedNodes :
         RatEq(RatOf(node), ValueOfJoin(joined.op, joined.flag, operands[1], operands[2]))

\* a difference with a value other than zero has been subtracted from a
\* leaf or a product: the join swapped the member lists of the difference
C15_Witness ==
  /\ pc = "joined"
  /\ joined.op = "joinAddGroup"
  /\ joined.flag
  /\ operands[2].kind = "AddGroup"
  /\ operands[2].negatives # <<>>
  /\ operands[2].fraction.numerator # 0
  /\ \E node \in JoinedNodes :
       /\ node.positives = <<operands[1]>> \o operands[2].negatives
       /\ node.negatives = operands[2].positives
       /\ RatEq(RatOf(node), RatSub(RatOf(operands[1]), RatOf(operands[2])))

\* the value of a node is zero
IsZero(node) == node.fraction.numerator = 0

\* the k-th candidate is a group of the given kind with the given value
CandidateIs(k, groupKind, value) ==
  /\ k <= Len(joined.results)
  /\ joined.results[k].kind = groupKind
  /\ RatEq(RatOf(joined.results[k]), value)

\* C16: combineExpressions(A, B) returns A+B, A*B, A-B, B-A, then A/B when
\* the value of B is not zero, then B/A when the value of A is not zero, in
\* this order and nothing else: 4 to 6 candidates, each quotient present or
\* absent on its own.
C16_CandidateOrder ==
  (pc = "joined" /\ joined.op = "combineExpressions") =>
    /\ Len(joined.results) \in 4..6
    /\ Len(joined.results) = 4 + (IF IsZero(operands[2]) THEN 0 ELSE 1)
                               + (IF IsZero(operands[1]) THEN 0 ELSE 1)
    /\ CandidateIs(1, "AddGroup", RatAdd(RatOf(operands[1]), RatOf(operands[2])))
    /\ CandidateIs(2, "MulGroup", RatMul(RatOf(operands[1]), RatOf(operands[2])))
    /\ CandidateIs(3, "AddGroup", RatSub(RatOf(operands[1]), RatOf(operands[2])))
    /\ CandidateIs(4, "AddGroup", RatSub(RatOf(operands[2]), RatOf(operands[1])))
    /\ ~IsZero(operands[2]) =>
         CandidateIs(5, "MulGroup", RatDiv(RatOf(operands[1]), RatOf(operands[2])))
    /\ ~IsZero(operands[1]) =>
         CandidateIs(Len(joined.results), "MulGroup",
                     RatDiv(RatOf(operands[2]), RatOf(operands[1])))

\* a product of value zero has been combined with a sum of another value:
\* five candidates, the last the quotient of value zero
C16_Witness ==
  /\ pc = "joined"
  /\ joined.op = "combineExpressions"
  /\ operands[1].kind = "MulGroup"
  /\ operands[2].kind = "AddGroup"
  /\ IsZero(operands[1])
  /\ ~IsZero(operands[2])
  /\ Len(joined.results) = 5
  /\ CandidateIs(5, "MulGroup", <<0, 1>>)
  /\ ~RatEq(RatOf(joined.results[3]), RatOf(joined.results[4]))

\* C17: joinMulGroup(A, B, true) gives no node exactly when the value of B is
\* zero, whatever the kind of B; joinMulGroup(A, B, false) always gives a
\* node; neither throws.
C17_DroppedOnlyOnZero ==
  (pc = "joined" /\ joined.op = "joinMulGroup") =>
    /\ ~IsThrow(joined.results[1])
    /\ IsNull(joined.results[1]) <=> (joined.flag /\ IsZero(operands[2]))

\* a node has been divided by a product that has a zero factor and a divisor
\* of its own: no node; and the state's operands would multiply to a node
C17_Witness ==
  /\ pc = "joined"
  /\ joined.op = "joinMulGroup"
  /\ joined.flag
  /\ operands[2].kind = "MulGroup"
  /\ operands[2].negatives # <<>>
  /\ \E k \in 1..Len(operands[2].positives) : IsZero(operands[2].positives[k])
  /\ ~IsZero(operands[1])
  /\ IsNull(joined.results[1])
  /\ IsNode(joinMulGroup(operands[1], operands[2], FALSE))

\* denominator > 0, no common divisor above 1, and zero is 0/1
NormalForm(f) ==
  /\ f.denominator > 0
  /\ \A k \in 2..f.denominator : ~(f.numerator % k = 0 /\ f.denominator % k = 0)

\* the fractions of the state: the operands that are fractions and the
\* fraction the operation gave
FractionsInState ==
  (IF pc = "fractions" \/ (pc = "made" /\ joined.op # "makeFraction")
     THEN {operands[1], operands[2]} ELSE {})
  \cup (IF pc = "made" /\ ~IsThrow(joined.results[1]) /\ ~IsNull(joined.results[1])
          THEN {joined.results[1]} ELSE {})

\* C18: every Fraction that makeFraction, addFractions, subtractFractions,
\* multiplyFractions or a divideFractions that gave one has built from
\* integers is in normal form, and two such fractions are equal as rationals
\* exactly when fractionsEqual holds of them.
C18_NormalForm ==
  /\ \A f \in FractionsInState : NormalForm(f)
  /\ \A f, g \in FractionsInState :
       fractionsEqual(f, g) <=> f.numerator * g.denominator = g.numerator * f.denominator

\* a division by a fraction below zero gave a fraction: the operation had to
\* move the sign out of the denominator and to reduce both parts
C18_Witness ==
  /\ pc = "made"
  /\ joined.op = "divideFractions"
  /\ operands[2].numerator < 0
  /\ ~IsNull(joined.results[1])
  /\ joined.results[1].numerator = -1
  /\ joined.results[1].denominator * 2 = -(operands[1].denominator * operands[2].numerator)
  /\ NormalForm(joined.results[1])

\* the cap of the call that is searched is reached
CapIsReached == pc = "search" /\ capReached(solutions, EffectiveCap(call))

\* C19: once the number of solutions has reached the cap, no step of the
\* search appends a Solution and none starts a recursive descent, whichever
\* call is running at whatever depth: the calls that have not returned only
\* return.
C19_CapStopsSearch ==
  [][CapIsReached => (solutions' = solutions /\ Len(stack') <= Len(stack))]_vars

\* the cap has just been reached two calls deep, and both calls that have not
\* returned still have candidates to search
C19_Witness ==
  /\ CapIsReached
  /\ Len(stack) >= 2
  /\ \A k \in 1..Len(stack) :
       stack[k].at = "loop" /\ stack[k].c <= Len(stack[k].combinedTerms)

\* the pool of the call at depth d (the first call is at depth 0) has
\* Len(numbers) - d nodes, so no call is deeper than Len(numbers) - 1
PoolShrinks ==
  /\ Len(stack) <= Len(numbers)
  /\ \A k \in 1..Len(stack) : Len(stack[k].terms) = Len(numbers) - (k - 1)

\* the most steps a call with a pool of n nodes takes until it has returned,
\* the calls it makes included: the step at its entry, and for each of its
\* n(n-1)/2 pairs a step for each of at most 6 candidates, the call for that
\* candidate, and the step to the next pair
RECURSIVE StepsOfCall(_)
StepsOfCall(n) ==
  IF n < 2 THEN 1
  ELSE 1 + ((n * (n - 1)) \div 2) * (6 * (1 + StepsOfCall(n - 1)) + 1)

\* the pairs of a pool of n nodes that come after the pair (i, j)
PairsAfter(i, j, n) == Cardinality({<<k, l>> \in (1..n) \X (1..n) :
                                      k < l /\ (k > i \/ (k = i /\ l > j))})

\* the most steps a call that has not returned still takes
StepsLeft(frame) ==
  IF frame.at = "entry" THEN StepsOfCall(Len(frame.terms))
  ELSE (Len(frame.combinedTerms) - frame.c + 1) * (1 + StepsOfCall(Len(frame.terms) - 1))
       + 1
       + PairsAfter(frame.i, frame.j, Len(frame.terms))
           * (6 * (1 + StepsOfCall(Len(frame.terms) - 1)) + 1)

RECURSIVE StepsLeftFrom(_)
StepsLeftFrom(k) == IF k > Len(stack) THEN 0 ELSE StepsLeft(stack[k]) + StepsLeftFrom(k + 1)

\* a bound on the steps until the entry point has returned
Variant == IF pc = "search" THEN 1 + StepsLeftFrom(1) ELSE 0

\* a search that has not returned has a step to take
CanStep ==
  pc = "search" =>
    \/ stack = <<>>
    \/ Top.at = "entry"
    \/ Top.at = "loop" /\ Top.c >= 1 /\ Top.i < Top.j /\ Top.j <= Len(Top.terms)

\* C20: every call terminates, with a cap or without: every call of
\* searchSolutions gets a pool one node smaller than its caller's, the pool
\* at depth d has N - d nodes and the depth never exceeds N - 1; a search
\* that has not returned always has a step to take, and every step lowers a
\* natural number, so after finitely many steps the entry point has
\* returned.
C20_Terminates ==
  /\ [](PoolShrinks /\ CanStep /\ Variant >= 0)
  /\ [][Variant' < Variant]_vars

\* an uncapped search of a hand of MaxLen numbers has returned after more
\* than a hundred calls of searchSolutions
C20_Witness ==
  /\ pc = "returned"
  /\ Variant = 0
  /\ Len(numbers) = MaxLen
  /\ call.fn = "findSolutions"
  /\ IsUndefined(call.maxSolutions)
  /\ call.searchCalls > 100

\* the number at a position of a text, then the numbers after it
RECURSIVE LiteralsFrom(_, _)
LiteralThen(text, parsed) == <<parsed.val[1]>> \o LiteralsFrom(text, parsed.pos)

\* the numbers a text holds, in order
LiteralsFrom(text, pos) ==
  IF pos > Len(text) THEN <<>>
  ELSE IF text[pos] \in DigitChars THEN LiteralThen(text, ParseDigits(text, pos, 0))
  ELSE LiteralsFrom(text, pos + 1)

\* how many operation signs a text holds
OperationsOf(text) == Cardinality({k \in 1..Len(text) : text[k] \in {"+", "-", "*", "/"}})

\* leaves holds every number of the hand as often as the hand does
SameNumbers(leaves, hand) ==
  /\ Len(leaves) = Len(hand)
  /\ \A k \in 1..Len(hand) : Occurrences(hand[k], leaves) = Occurrences(hand[k], hand)

UsesEachOnce(text) ==
  /\ SameNumbers(LiteralsFrom(text, 1), numbers)
  /\ OperationsOf(text) = Len(numbers) - 1

\* C21: a Solution is recorded only by a call of searchSolutions whose pool
\* has one node, and the expression of every Solution recorded holds every
\* number of the hand as a leaf as often as the hand holds it and no other
\* number, joined by exactly Len(numbers) - 1 operations.
C21_EachNumberOnce ==
  /\ [](\A k \in 1..Len(solutions) : UsesEachOnce(solutions[k].expression))
  /\ [][solutions' # solutions =>
          /\ stack # <<>>
          /\ Top.at = "entry"
          /\ Len(Top.terms) = 1
          /\ Len(solutions') = Len(solutions) + 1]_vars

\* a hand of MaxLen numbers that holds a number twice has two Solutions
C21_Witness ==
  /\ Len(numbers) = MaxLen
  /\ \E k \in 1..Len(numbers) : Occurrences(numbers[k], numbers) = 2
  /\ Len(solutions) >= 2
  /\ pc = "returned"

\* the same results however the arrays are kept
PoolsAgree ==
  pc = "returned" =>
    \A d \in Calls : WasCalled(d) =>
      returned[d] = (IF d.fn = "findFirstSolution"
                       THEN findFirstSolution(numbers, [target |-> target,
                                                        maxSolutions |-> d.maxSolutions])
                       ELSE findSolutions(numbers, [target |-> target,
                                                    maxSolutions |-> d.maxSolutions]))

\* no two calls hold the same array
OwnArrays ==
  /\ \A k, l \in 1..Len(stack) : k # l => stack[k].terms # stack[l].terms
  /\ \A k, l \in 1..Len(stack) : stack[k].terms # stack[l].remaining

\* a step leaves the pool of every call that has not returned as it was
PoolsKept ==
  \A k \in 1..Len(stack) : k <= Len(stack') =>
    /\ stack'[k].terms = stack[k].terms
    /\ heap'.cells[stack'[k].terms] = heap.cells[stack[k].terms]

\* a call is made on a new array: remaining and then the candidate
NewPool ==
  Len(stack') = Len(stack) + 1 =>
    /\ stack'[Len(stack')].terms \notin DOMAIN heap.cells
    /\ heap'.cells[stack'[Len(stack')].terms] =
         removePair(PoolOf(Top), Top.i, Top.j) \o <<Top.combinedTerms[Top.c]>>

\* C22: a search step never changes the pool it was given: every step
\* leaves the terms of every call that has not returned with the same nodes
\* in the same order, so the caller's pool after a descent is its pool
\* before it; every descent gets an array of its own, made of the remaining
\* nodes in their order followed by the candidate, and no two calls hold the
\* same array.
C22_PoolUnchanged ==
  /\ []OwnArrays
  /\ [][PoolsKept /\ NewPool]_vars

\* the first call, on a hand of MaxLen numbers, is at its third pair with two
\* descents of that pair behind it and a call below it, and its pool is the
\* hand
C22_Witness ==
  /\ pc = "pools"
  /\ Len(numbers) = MaxLen
  /\ Len(stack) >= 2
  /\ stack[1].i = 2
  /\ stack[1].c >= 3
  /\ PoolOf(stack[1]) = makeInitialExpressions(numbers)

\* what invocation id gives back when it runs alone
Alone(id) ==
  IF runs[id].fn = "findFirstSolution"
    THEN findFirstSolution(runs[id].numbers,
                           [target |-> runs[id].target, maxSolutions |-> Undefined])
    ELSE findSolutions(runs[id].numbers,
                       [target |-> runs[id].target, maxSolutions |-> Undefined])

\* C23: invocations share no state: whatever the steps of another
\* invocation, before, between or after its own, an invocation that has
\* returned gave back what it gives back when it runs alone, a function of
\* its arguments; and a step of one invocation leaves everything the other
\* holds as it was.
C23_NoSharedState ==
  /\ [](\A id \in DOMAIN runs : runs[id].returned # NotCalled => runs[id].returned = Alone(id))
  /\ [][\A id \in DOMAIN runs : runs'[id] = runs[id] \/ \A other \in DOMAIN runs \ {id} :
                                                         runs'[other] = runs[other]]_vars

\* invocation 2 has returned a Solution whose text invocation 1, on another
\* hand and still searching, had put into its own set of seen expressions
C23_Witness ==
  /\ pc = "runs"
  /\ runs[1].numbers # runs[2].numbers
  /\ runs[1].stack # <<>>
  /\ runs[1].acc.searchCalls > 0
  /\ runs[2].returned # NotCalled
  /\ runs[2].returned.result.kind = "list"
  /\ \E k \in 1..Len(runs[2].returned.result.list) :
       runs[2].returned.result.list[k].expression \in runs[1].acc.seenExpressions

\* seq without the element at position p
RemoveAt(seq, p) == SubSeq(seq, 1, p - 1) \o SubSeq(seq, p + 1, Len(seq))

\* seq without the elements at the two positions p and q
RemoveBoth(seq, p, q) == IF p < q THEN RemoveAt(RemoveAt(seq, q), p)
                         ELSE RemoveAt(RemoveAt(seq, p), q)

\* a click on the card at index makes the second operand of the selected
\* operation
ClickApplies(index) ==
  /\ state.status # "success"
  /\ state.selectedOperation # Null
  /\ Len(state.selectedIndices) = 1
  /\ state.selectedIndices[1] # index

DividesByZero(index) ==
  /\ state.selectedOperation.sign = "/"
  /\ state.numbers[index + 1].numerator = 0

\* the state after the rejected operation
IsRejected(after) ==
  /\ after.numbers = state.numbers
  /\ after.history = state.history
  /\ after.selectedIndices = <<>>
  /\ after.selectedOperation = Null
  /\ after.status = "error"

\* the state after the operation applied to the cards at first and index
IsApplied(after, first, index) ==
  /\ Len(after.history) = Len(state.history) + 1
  /\ SubSeq(after.history, 1, Len(state.history)) = state.history
  /\ Len(after.numbers) = Len(state.numbers) - 1
  /\ SubSeq(after.numbers, 1, Len(after.numbers) - 1)
       = RemoveBoth(state.numbers, first + 1, index + 1)
  /\ after.numbers[Len(after.numbers)] = after.history[Len(after.history)].result
  /\ after.selectedIndices = <<>>

ClickAppliesRight(index) ==
  IF DividesByZero(index) THEN IsRejected(handleNumberClick(state, index))
  ELSE IsApplied(handleNumberClick(state, index), state.selectedIndices[1], index)

\* C24: in the web front-end, once a hand is dealt, after any clicks on
\* cards and operations, restarts, new deals and mode changes the number of
\* history entries plus the number of cards left is the hand size of the
\* mode (6 or 4); an operation that is applied removes the two chosen
\* cards, appends one result and adds one history entry; an operation
\* rejected for division by zero leaves the cards and the history as they
\* were, clears the selection and sets the status to error.
C24_CardsAndHistory ==
  /\ Len(state.history) + Len(state.numbers) = NUMBERS_PER_MODE(state.mode)
  /\ \A index \in 0..(Len(state.numbers) - 1) :
       ClickApplies(index) => ClickAppliesRight(index)

\* a division by zero has been rejected after an operation was applied: the
\* status is error with more than one card left and one history entry
C24_Witness ==
  /\ pc = "play"
  /\ state.status = "error"
  /\ Len(state.history) = 1
  /\ Len(state.numbers) = NUMBERS_PER_MODE(state.mode) - 1
  /\ state.numbers[Len(state.numbers)].numerator = 0
  /\ state.selectedIndices = <<>>
  /\ state.selectedOperation = Null

\* the hand of the state was dealt in its mode
IsDealtHand ==
  /\ Len(state.initialNumbers) = NUMBERS_PER_MODE(state.mode)
  /\ \E cards \in DrawableHands(state.mode) : state.initialNumbers = NumbersOf(cards)

\* the state a restart gives is the state the deal of the hand gave
RestartRestores(after) ==
  /\ after.numbers = state.initialNumbers
  /\ after.initialNumbers = state.initialNumbers
  /\ after.mode = state.mode
  /\ after.history = <<>>
  /\ after.selectedIndices = <<>>
  /\ after.selectedOperation = Null
  /\ after.status = "idle"

\* C25: in the web front-end, a restart after any moves on a dealt hand
\* gives the hand that was dealt, the same numbers in the same order, with
\* an empty history, no selected card, no selected operation and status
\* idle; the stored initial hand changes only when a hand is dealt.
C25_RestartRestores ==
  /\ [](IsDealtHand /\ RestartRestores(restartSameHand(state, <<>>)))
  /\ [][state'.initialNumbers # state.initialNumbers =>
          state' = DealtState(state'.mode, state'.initialNumbers)]_vars

\* MaxMoves operations have been applied to a hand, a card and an operation
\* are selected, and a restart gives the state of the deal
C25_Witness ==
  /\ pc = "play"
  /\ Len(state.history) = MaxMoves
  /\ state.numbers # state.initialNumbers
  /\ state.selectedIndices # <<>>
  /\ state.selectedOperation # Null
  /\ restartSameHand(state, <<>>) = DealtState(state.mode, state.initialNumbers)

\* the integers computed for a node and the parts of its value
ComputedFor(node) ==
  {node.fraction.numerator, node.fraction.denominator}
    \cup (CASE node.kind = "NumericExpression" -> {}
            [] node.kind = "AddGroup" ->
                 GroupComputed(makeFraction(0, 1), "add", "subtract",
                               node.positives, node.negatives)
            [] node.kind = "MulGroup" ->
                 GroupComputed(makeFraction(1, 1), "multiply", "divide",
                               node.positives, node.negatives))

\* how many leaves a node has
RECURSIVE LeafCount(_)
RECURSIVE LeafCountOf(_)
LeafCountOf(members) ==
  IF members = <<>> THEN 0 ELSE LeafCount(Head(members)) + LeafCountOf(Tail(members))

LeafCount(node) ==
  IF node.kind = "NumericExpression" THEN 1
  ELSE LeafCountOf(node.positives) + LeafCountOf(node.negatives)

\* a bound on what is computed for a node of k leaves, none above highest:
\* a sum at most doubles the product of the bounds of its two parts
HeightBound(k, highest) == (2 ^ (k - 1)) * (highest ^ k)

====
